---- MODULE Spec2Model ----
(***************************************************************************)
(* Incremental media indexing engine of Photonix.                          *)
(*                                                                         *)
(*   backend/services/indexer.service.js  orchestrator, pending buffer,    *)
(*                                        change consolidation, watcher    *)
(*   backend/workers/indexing-worker.js   index builder (rebuild / apply)  *)
(*                                                                         *)
(*   backend/db/database-retry.js         withRetry                        *)
(*                                                                         *)
(* The specifications of the module:                                       *)
(*   SpecConsolidate  consolidateIndexChanges as a pure function           *)
(*   Spec             the orchestrator: flush timer, jobs, isIndexing      *)
(*   FairSpec         Spec with its timers, continuations and worker ends  *)
(*                    taken eventually                                     *)
(*   SpecWatch        onFileChange await by await, interleaved with Spec   *)
(*   SpecTags         cache invalidation of the flush callback             *)
(*   SpecRebuild      rebuild_index with crash and restart                 *)
(*   SpecApply        process_changes: transaction, covers, failures       *)
(*   SpecRetry        withRetry; FairRetry with attempts and sleeps ending *)
(***************************************************************************)
EXTENDS Integers, Sequences, FiniteSets, TLC

(***************************************************************************)
(* Bounds                                                                  *)
(***************************************************************************)
\* longest raw event list handed to consolidateIndexChanges
MaxLen == 3

(***************************************************************************)
(* Change events                                                           *)
(***************************************************************************)
\* absolute paths under PHOTOS_DIR that events are about
Paths == {"/photos/A", "/photos/A/1.jpg"}

\* a change without a hash field ({ type, filePath }): hash is undefined
NoHash == "undefined"
Hashes == {"h1", "h2"}

\* chokidar's four kinds, plus the 'update' a manual caller may pass
ChangeTypes == {"add", "unlink", "addDir", "unlinkDir", "update"}

\* { type, filePath, hash? }: only an add carries a hash (onFileChange)
Changes ==
    [type : {"add"}, filePath : Paths, hash : Hashes \cup {NoHash}]
        \cup [type : ChangeTypes \ {"add"}, filePath : Paths, hash : {NoHash}]

RECURSIVE SeqsUpTo(_, _)
SeqsUpTo(S, n) ==
    IF n = 0 THEN {<<>>}
    ELSE LET shorter == SeqsUpTo(S, n - 1)
         IN shorter \cup {Append(s, x) : s \in {t \in shorter : Len(t) = n - 1}, x \in S}

(***************************************************************************)
(* A JavaScript Map, kept as the sequence of its entries in insertion      *)
(* order: set() on a present key replaces the value in place, set() on an  *)
(* absent key appends, delete() removes the entry.                         *)
(***************************************************************************)
MapHas(m, k) == \E i \in 1..Len(m) : m[i].key = k

MapGet(m, k) == m[CHOOSE i \in 1..Len(m) : m[i].key = k].value

MapSet_appendAlways(m, k, v) == Append(m, [key |-> k, value |-> v])

MapSet(m, k, v) ==
    IF MapHas(m, k)
    THEN [i \in 1..Len(m) |-> IF m[i].key = k THEN [key |-> k, value |-> v] ELSE m[i]]
    ELSE Append(m, [key |-> k, value |-> v])

MapDelete(m, k) == SelectSeq(m, LAMBDA e : e.key # k)

MapValues(m) == [i \in 1..Len(m) |-> m[i].value]

(***************************************************************************)
(* consolidateIndexChanges (indexer.service.js 1431-1469)                  *)
(***************************************************************************)
\* rule 1: add -> unlink, addDir -> unlinkDir
IsCancel_sameHashOnly(existingChange, change) ==
    /\ existingChange.type = "add" /\ change.type = "unlink"
    /\ existingChange.hash = change.hash

IsCancel_eitherOrder(existingChange, change) ==
    \/ {existingChange.type, change.type} = {"add", "unlink"}
    \/ {existingChange.type, change.type} = {"addDir", "unlinkDir"}

IsCancel(existingChange, change) ==
    \/ existingChange.type = "add" /\ change.type = "unlink"
    \/ existingChange.type = "addDir" /\ change.type = "unlinkDir"

\* rule 2: unlink -> add, unlinkDir -> addDir
IsReplace(existingChange, change) ==
    \/ existingChange.type = "unlink" /\ change.type = "add"
    \/ existingChange.type = "unlinkDir" /\ change.type = "addDir"

\* rule 3: add -> add with the same (truthy) hash
IsDuplicateAdd_typeOnly(existingChange, change) ==
    existingChange.type = "add" /\ change.type = "add"

IsDuplicateAdd_hashDiffers(existingChange, change) ==
    /\ existingChange.type = "add" /\ change.type = "add"
    /\ existingChange.hash # NoHash
    /\ existingChange.hash # change.hash

IsDuplicateAdd(existingChange, change) ==
    /\ existingChange.type = "add" /\ change.type = "add"
    /\ existingChange.hash # NoHash
    /\ existingChange.hash = change.hash

\* { ...change, type: 'update' }
AsUpdate(change) == [change EXCEPT !.type = "update"]

\* one iteration of the for loop over changes
MergeChange(changeMap, change) ==
    IF MapHas(changeMap, change.filePath)
    THEN LET existingChange == MapGet(changeMap, change.filePath)
         IN IF IsCancel(existingChange, change)
               THEN MapDelete(changeMap, change.filePath)
            ELSE IF IsReplace(existingChange, change)
               THEN MapSet(changeMap, change.filePath, AsUpdate(change))
            ELSE IF IsDuplicateAdd(existingChange, change)
               THEN MapSet(changeMap, change.filePath, change)
            ELSE MapSet(changeMap, change.filePath, AsUpdate(change))
    ELSE MapSet(changeMap, change.filePath, change)

RECURSIVE MergeAll(_, _, _)
MergeAll(changeMap, changes, i) ==
    IF i > Len(changes) THEN changeMap
    ELSE MergeAll(MergeChange(changeMap, changes[i]), changes, i + 1)

consolidateIndexChanges(changes) == MapValues(MergeAll(<<>>, changes, 1))

(***************************************************************************)
(* The pending change buffer (indexer.service.js 882-922)                  *)
(*                                                                         *)
(* pendingIndexChanges is a Map filePath -> [changes].  The model keeps    *)
(* the entries of a few named paths explicitly and, beside them, the       *)
(* number bulkPending of further entries, each for a distinct path of its  *)
(* own with exactly one add event (a bulk import).  Such an entry passes   *)
(* through consolidateIndexChanges unchanged (the else branch, line 1462), *)
(* so only its count matters to the orchestrator.                          *)
(***************************************************************************)
\* the event replaces what the buffer held
enqueueIndexChange_fresh(pending, change) ==
    MapSet(<<>>, change.filePath, <<change>>)

enqueueIndexChange(pending, change) ==
    IF MapHas(pending, change.filePath)
    THEN MapSet(pending, change.filePath, Append(MapGet(pending, change.filePath), change))
    ELSE MapSet(pending, change.filePath, <<change>>)

RECURSIVE EnqueueAll(_, _, _)
EnqueueAll(pending, changes, i) ==
    IF i > Len(changes) THEN pending
    ELSE EnqueueAll(enqueueIndexChange(pending, changes[i]), changes, i + 1)

RECURSIVE FlattenFrom(_, _)
FlattenFrom(pending, i) ==
    IF i > Len(pending) THEN <<>>
    ELSE pending[i].value \o FlattenFrom(pending, i + 1)

flattenPendingChanges(pending) == FlattenFrom(pending, 1)

\* total number of buffered events
getPendingChangeCount(pending, bulk) == Len(flattenPendingChanges(pending)) + bulk

\* pendingIndexChanges.size
PendingSize(pending, bulk) == Len(pending) + bulk

\* the buffer after pendingIndexChanges.clear()
ClearPending_forgotten(pending, bulk) == [entries |-> pending, bulk |-> bulk]

ClearPending(pending, bulk) == [entries |-> <<>>, bulk |-> 0]

\* the array consolidateAndExtractChanges returns: the consolidated named
\* entries, and the count of bulk entries that follow them
consolidateAndExtractChanges(pending, bulk) ==
    [changes |-> consolidateIndexChanges(flattenPendingChanges(pending)), bulk |-> bulk]

\* changesToProcess.length
ChangeCount(c) == Len(c.changes) + c.bulk

NoChanges == [changes |-> <<>>, bulk |-> 0]

\* changesToProcess.length > 5000
ExceedsRebuildCeiling_inclusive(n) == n >= 5000

ExceedsRebuildCeiling(n) == n > 5000

(***************************************************************************)
(* Inputs of the orchestrator                                              *)
(***************************************************************************)
\* the events chokidar reports
WatchEvents ==
    { <<"add", "/photos/A/1.jpg">>, <<"unlink", "/photos/A/1.jpg">>,
      <<"addDir", "/photos/A">>, <<"add", "/photos/A/2.mp4">> }

\* /\.(mp4|webm|mov)$/i
IsVideoFile(filePath) == filePath \in {"/photos/A/2.mp4", "/photos/B/3.mp4"}

\* /\.(jpe?g|png|webp|gif|mp4|webm|mov)$/i
isSupportedMediaFile(filePath) == filePath \in {"/photos/A/1.jpg", "/photos/A/2.mp4"}

\* none of the modelled paths matches an ignore pattern
shouldIgnore(filePath) == FALSE

shouldProcessFileChange(type, filePath) ==
    IF shouldIgnore(filePath) THEN FALSE
    ELSE IF type \in {"addDir", "unlinkDir"} THEN TRUE
    ELSE isSupportedMediaFile(filePath)

\* what computeFileHash resolves to for the modelled image
FileHashes == {"h1"}

\* sizes of a bulk import: 4999 and 6000 distinct new files
BulkSizes == {4999, 6000}

\* change lists a caller passes to processManualChanges / enqueueManualChanges
ManualInputs ==
    { <<[type |-> "add", filePath |-> "/photos/A/1.jpg", hash |-> "h1"]>>,
      <<[type |-> "addDir", filePath |-> "/photos/A", hash |-> NoHash],
        [type |-> "unlinkDir", filePath |-> "/photos/A", hash |-> NoHash]>> }

\* most events held by the named entries of the buffer
MaxPending == 2

\* most armed watcher restart timers
MaxRestartTimers == 1

\* the debounce callback (one in flight at a time), a processManualChanges
\* call, and the buildSearchIndex call of startServer
FlushProcs == {"flush1"}
ManualProcs == {"manual1"}
BootProc == "boot"
Procs == FlushProcs \cup ManualProcs \cup {BootProc}
MaintenanceOwner == "maintenance"

(***************************************************************************)
(* The photo tree and the tables of the index builder                      *)
(* (indexing-worker.js 146-347)                                            *)
(***************************************************************************)
\* every path a tree can hold, relative to photosDir, in the order
\* walkDirStream yields them (a directory, then its entries)
WalkOrder == <<"A", "A/1.jpg", "A/2.jpg", "B", "B/3.mp4">>

RelPaths == {WalkOrder[i] : i \in 1..Len(WalkOrder)}

NoParent == ""

\* path.dirname, with "" for an entry of photosDir itself
ParentOf(path) ==
    CASE path \in {"A/1.jpg", "A/2.jpg"} -> "A"
      [] path = "B/3.mp4" -> "B"
      [] OTHER -> NoParent

\* entry.name
NameOf(path) ==
    CASE path = "A/1.jpg" -> "1.jpg"
      [] path = "A/2.jpg" -> "2.jpg"
      [] path = "B/3.mp4" -> "3.mp4"
      [] OTHER -> path

\* album for a directory, photo or video by extension
TypeOf(path) ==
    CASE path \in {"A", "B"} -> "album"
      [] path = "B/3.mp4" -> "video"
      [] OTHER -> "photo"

\* stats.mtimeMs of the entry
MtimeOf(path) ==
    CASE path = "A" -> 10
      [] path = "A/1.jpg" -> 100
      [] path = "A/2.jpg" -> 200
      [] path = "B" -> 20
      [] path = "B/3.mp4" -> 300
      [] OTHER -> 0

\* getMediaDimensions of the entry
WidthOf(path) == IF path = "B/3.mp4" THEN 1920 ELSE 800
HeightOf(path) == IF path = "B/3.mp4" THEN 1080 ELSE 600

\* a non-value: SQL NULL, JavaScript null
NULL == "NULL"

\* a null width or height (falsy, as 0 is)
NullDim == 0

\* a tree holds a file only together with its directory
IsTree(t) == \A path \in t : ParentOf(path) = NoParent \/ ParentOf(path) \in t

Trees == {t \in SUBSET RelPaths : IsTree(t)}

\* the tuples walkDirStream yields for the tree, in order
walkDirStream(t) ==
    LET present == SelectSeq(WalkOrder, LAMBDA path : path \in t)
    IN [i \in 1..Len(present) |->
            [type |-> TypeOf(present[i]), path |-> present[i],
             name |-> NameOf(present[i]), mtime |-> MtimeOf(present[i])]]

\* processDimensionsInParallel: width and height of media, null for albums
processDimensionsInParallel(batch) ==
    [i \in 1..Len(batch) |->
        [type |-> batch[i].type, path |-> batch[i].path, name |-> batch[i].name,
         mtime |-> batch[i].mtime,
         width |-> IF batch[i].type = "album" THEN NullDim ELSE WidthOf(batch[i].path),
         height |-> IF batch[i].type = "album" THEN NullDim ELSE HeightOf(batch[i].path)]]

\* INSERT INTO items ... ON DUPLICATE KEY UPDATE mtime, width, height
UpsertItem(rows, item) ==
    IF \E r \in rows : r.path = item.path
    THEN {IF r.path = item.path
             THEN [r EXCEPT !.mtime = item.mtime, !.width = item.width,
                            !.height = item.height]
             ELSE r : r \in rows}
    ELSE rows \cup {[name |-> item.name, path |-> item.path, type |-> item.type,
                     mtime |-> item.mtime, width |-> item.width, height |-> item.height]}

\* INSERT INTO thumb_status ... ON DUPLICATE KEY UPDATE mtime, status
UpsertThumb(rows, item) ==
    IF item.type \notin {"photo", "video"} THEN rows
    ELSE IF \E r \in rows : r.path = item.path
    THEN {IF r.path = item.path
             THEN [r EXCEPT !.mtime = item.mtime, !.status = "pending"]
             ELSE r : r \in rows}
    ELSE rows \cup {[path |-> item.path, mtime |-> item.mtime, status |-> "pending",
                     last_checked |-> 0]}

RECURSIVE UpsertItems(_, _, _)
UpsertItems(rows, processedBatch, i) ==
    IF i > Len(processedBatch) THEN rows
    ELSE UpsertItems(UpsertItem(rows, processedBatch[i]), processedBatch, i + 1)

RECURSIVE UpsertThumbs(_, _, _)
UpsertThumbs(rows, processedBatch, i) ==
    IF i > Len(processedBatch) THEN rows
    ELSE UpsertThumbs(UpsertThumb(rows, processedBatch[i]), processedBatch, i + 1)

\* enumerateParentAlbums: every ancestor directory of a path
RECURSIVE enumerateParentAlbums(_)
enumerateParentAlbums(path) ==
    IF ParentOf(path) = NoParent THEN {}
    ELSE {ParentOf(path)} \cup enumerateParentAlbums(ParentOf(path))

\* rebuildAlbumCoversFromItems: for every album row, the media row under it
\* with the greatest mtime, upserted into album_covers
rebuildAlbumCoversFromItems(covers, rows) ==
    LET albums == {r.path : r \in {x \in rows : x.type = "album"}}
        media == {r \in rows : r.type \in {"photo", "video"}}
        under(a) == {m \in media : a \in enumerateParentAlbums(m.path)}
        newest(a) == CHOOSE m \in under(a) : \A o \in under(a) : o.mtime <= m.mtime
        covered == {a \in albums : under(a) # {}}
    IN {c \in covers : c.album_path \notin covered} \cup
       {[album_path |-> a, cover_path |-> newest(a).path,
         width |-> IF newest(a).width = NullDim THEN 1 ELSE newest(a).width,
         height |-> IF newest(a).height = NullDim THEN 1 ELSE newest(a).height,
         mtime |-> newest(a).mtime] : a \in covered}

\* const batchSize = 1000, scaled to the size of the modelled tree
BatchSize == 2

NoStatus == [status |-> NULL, processed_files |-> 0]

\* most rebuild workers that are killed or fail
MaxStops == 2

(***************************************************************************)
(* State                                                                   *)
(***************************************************************************)
VARIABLES
    conIn,      \* consolidateIndexChanges: the argument
    conOut,     \* consolidateIndexChanges: the returned array
    conPc,      \* "call" before the call, "returned" after it
    isIndexing,             \* the mutual exclusion flag
    pendingIndexChanges,    \* named entries of the buffer, in insertion order
    bulkPending,            \* number of bulk entries of the buffer
    rebuildTimeout,         \* the debounce timer: "idle" or "armed"
    currentWatcher,         \* "null" or "open"
    watcherTimers,          \* armed setTimeout callbacks that restart the watcher
    pc,                     \* position of each asynchronous call
    changesToProcess,       \* consolidated change set each call holds
    workers,                \* disposable workers of runIndexingTask in flight
    postIndexMaintenanceScheduled,
    booted,                 \* startServer has run
    lastJob,                \* how the index job that ended in the step just
                            \* taken did end: "resolved" or "rejected", and
                            \* "none" when the step ended no index job
    droppedFlush,           \* history of the events a flush left behind when it
                            \* returned at the isIndexing check: "none", "left"
                            \* (still in the buffer), "drained" (by a later flush)
    tree,                   \* the paths present under photosDir
    items,                  \* table items
    thumbStatus,            \* table thumb_status
    albumCovers,            \* table album_covers
    last_processed_path,    \* index_progress row 'last_processed_path', or NULL
    indexStatus,            \* index_status row 1: status and processed_files
    rpc,                    \* position of the rebuild_index worker
    lastProcessedPath,      \* rebuild_index: the checkpoint read at the start
    walk,                   \* tuples walkDirStream still has to yield
    batch,                  \* rebuild_index: batch
    shouldProcess,          \* rebuild_index: shouldProcess
    count,                  \* rebuild_index: count
    stops,                  \* number of rebuild workers killed or failed so far
    interrupted,            \* history: a rebuild worker was killed after a checkpoint
    checkpointGone,         \* history: the checkpointed path left the tree
    checkpointed,           \* history: a checkpoint was written since the last
                            \* rebuild that started without one
    apc,                    \* position of the process_changes worker
    applyChanges,           \* process_changes: the changes of the payload
    before,                 \* the tables as of START TRANSACTION
    now,                    \* Date.now()
    swallowed,              \* history: this apply caught and dropped a write error
    applies,                \* number of process_changes workers started so far
    wpc,                    \* position of the withRetry call
    maxRetries,             \* withRetry: config.maxRetries
    attempt,                \* withRetry: the loop variable
    lastError,              \* withRetry: lastError
    delay,                  \* withRetry: the delay of the last sleep
    calls,                  \* number of times operation() was invoked
    sleeps,                 \* number of times sleep(delay) was awaited
    settled,                \* what the promise of withRetry settled with
    watching,               \* onFileChange: position and event of each call
    tpc,                    \* position of the cache invalidation of a flush
    pendingSnapshot,        \* the flush callback's pendingSnapshot
    albumTags,              \* the flush callback's albumTags
    cacheAction,            \* "none", "targeted" (invalidateTags) or "purge"
    cursor,                 \* the SCAN cursor of the purge
    cacheFailed,            \* the invalidation or the purge threw
    INDEX_STABILIZE_DELAY_MS, \* the configured base delay of the debounce
    timers,                 \* the timers of setTimeout not yet fired or cleared
    timerSeq,               \* rebuildTimeout: the handle of the timer armed last
    indexingInProgress,     \* the redis key indexing_in_progress is set
    task,                   \* runIndexingTask: the promise and its worker handle
    tworker,                \* the disposable worker thread of that call
    openWatchers,           \* the chokidar instances that are watching
    watcherRunning,         \* state.watcher: the running flag
    idleClosing,            \* instances whose idle stop awaits close()
    idleTimers,             \* instances whose idle interval is not cleared
    watcherSeq              \* number of chokidar instances created so far

conVars == <<conIn, conOut, conPc>>

orchVars == <<isIndexing, pendingIndexChanges, bulkPending, rebuildTimeout,
              currentWatcher, watcherTimers, pc, changesToProcess,
              workers, postIndexMaintenanceScheduled, booted, lastJob,
              droppedFlush>>

dbVars == <<items, thumbStatus, albumCovers, last_processed_path, indexStatus>>

localVars == <<lastProcessedPath, walk, batch, shouldProcess, count>>

rebuildVars == <<tree, dbVars, rpc, localVars, stops, interrupted, checkpointGone, checkpointed>>

applyVars == <<apc, applyChanges, before, now, swallowed, applies>>

retryVars == <<wpc, maxRetries, attempt, lastError, delay, calls, sleeps, settled>>

tagVars == <<tpc, pendingSnapshot, albumTags, cacheAction, cursor, cacheFailed>>

timerVars == <<INDEX_STABILIZE_DELAY_MS, timers, timerSeq>>

taskVars == <<indexingInProgress, task, tworker>>

lifeVars == <<openWatchers, watcherRunning, idleClosing, idleTimers, watcherSeq>>

vars == <<conVars, orchVars, rebuildVars, applyVars, retryVars, watching, tagVars,
          timerVars, taskVars, lifeVars>>

\* the three tables of the main database, empty
NoTables == [items |-> {}, thumbStatus |-> {}, albumCovers |-> {}]

\* Date.now() when the modelled run begins: later than every mtime of the tree
NowStart == 1000

\* no process_changes worker has run
ApplyIdle ==
    /\ apc = "idle"
    /\ applyChanges = <<>>
    /\ before = NoTables
    /\ now = NowStart
    /\ swallowed = FALSE
    /\ applies = 0

\* let lastError: undefined until an attempt has failed
NoError == [code |-> "undefined", message |-> "undefined"]

\* no value: the promise of withRetry has not settled
Unsettled == [how |-> "pending", value |-> "undefined", error |-> NoError]

\* DEFAULT_RETRY_CONFIG.maxRetries
DefaultMaxRetries == 8

\* calls of onFileChange that can be in flight together
Handlers == {"w1", "w2"}

\* no call of onFileChange has been made
NoWatch == [pc |-> "idle", type |-> "none", filePath |-> "none"]

WatchIdle == watching = [h \in Handlers |-> NoWatch]

\* no events, and no bulk of further events
NoSnapshot == [named |-> <<>>, bulk |-> 0, depth |-> 0]

\* an empty Set of tags
NoTags == [named |-> {}, extra |-> 0]

\* no flush callback has run
TagIdle ==
    /\ tpc = "idle"
    /\ pendingSnapshot = NoSnapshot
    /\ albumTags = NoTags
    /\ cacheAction = "none"
    /\ cursor = 0
    /\ cacheFailed = FALSE

\* no debounce timer has been armed, the configuration has not been read
TimerIdle ==
    /\ INDEX_STABILIZE_DELAY_MS = "unread"
    /\ timers = {}
    /\ timerSeq = 0

\* runIndexingTask has not been called
NoTask == [type |-> "none", changes |-> 0, posted |-> FALSE, settled |-> "pending",
           settles |-> 0, created |-> 0, listeners |-> FALSE, terminated |-> FALSE]

\* no worker thread
NoTaskWorker == [pos |-> "none", outbox |-> <<>>, boosts |-> 0, terminal |-> FALSE,
                 gone |-> "no"]

TaskIdle ==
    /\ indexingInProgress = FALSE
    /\ task = NoTask
    /\ tworker = NoTaskWorker

\* watchPhotosDir has not been called
LifeIdle ==
    /\ openWatchers = {}
    /\ watcherRunning = FALSE
    /\ idleClosing = {}
    /\ idleTimers = {}
    /\ watcherSeq = 0

\* withRetry has not been called
RetryIdle ==
    /\ wpc = "idle"
    /\ maxRetries = DefaultMaxRetries
    /\ attempt = 0
    /\ lastError = NoError
    /\ delay = 0
    /\ calls = 0
    /\ sleeps = 0
    /\ settled = Unsettled

(***************************************************************************)
(* Orchestrator (indexer.service.js 1477-2040, server.js 155-190)          *)
(***************************************************************************)
OrchInit ==
    /\ isIndexing = FALSE
    /\ pendingIndexChanges = <<>>
    /\ bulkPending = 0
    /\ rebuildTimeout = "idle"
    /\ currentWatcher = "null"
    /\ watcherTimers = 0
    /\ pc = [p \in Procs |-> "idle"]
    /\ changesToProcess = [p \in Procs |-> NoChanges]
    /\ workers = {}
    /\ postIndexMaintenanceScheduled = FALSE
    /\ booted = FALSE
    /\ lastJob = "none"
    /\ droppedFlush = "none"

\* runIndexingTask(type, payload) called by p: one disposable worker
Worker(p, type, payload) ==
    [owner |-> p, type |-> type, changes |-> payload.changes, bulk |-> payload.bulk]

WorkerOf(p) == CHOOSE w \in workers : w.owner = p

HasWorker(p) == \E w \in workers : w.owner = p

PendingEmpty == pendingIndexChanges = <<>> /\ bulkPending = 0

\* startServer step 7: buildSearchIndex() when the index is empty, unfinished
\* or unreadable, then watchPhotosDir()
StartServer(rebuild) ==
    /\ ~booted
    /\ booted' = TRUE
    /\ IF rebuild
          THEN \* currentWatcher is null: no await before the flag is set;
               \* watchPhotosDir then finds isIndexing and arms its retry timer
               /\ isIndexing' = TRUE
               /\ workers' = workers \cup {Worker(BootProc, "rebuild_index", NoChanges)}
               /\ pc' = [pc EXCEPT ![BootProc] = "awaitRebuild"]
               /\ watcherTimers' = watcherTimers + 1
               /\ UNCHANGED currentWatcher
          ELSE /\ currentWatcher' = "open"
               /\ UNCHANGED <<isIndexing, workers, pc, watcherTimers>>
    /\ UNCHANGED <<pendingIndexChanges, bulkPending, rebuildTimeout, changesToProcess, postIndexMaintenanceScheduled, droppedFlush>>
    /\ lastJob' = "none"

\* onFileChange(type, filePath) of the open watcher: dropped while a job is
\* in flight or when the filter rejects it; an add of a video returns after
\* invalidateCoverCache; anything else is enqueued and re-arms the timer
onFileChange(type, filePath) ==
    /\ currentWatcher = "open"
    /\ Len(flattenPendingChanges(pendingIndexChanges)) < MaxPending
    /\ IF isIndexing \/ ~shouldProcessFileChange(type, filePath)
          THEN UNCHANGED <<pendingIndexChanges, rebuildTimeout>>
          ELSE IF type = "add" /\ IsVideoFile(filePath)
          THEN UNCHANGED <<pendingIndexChanges, rebuildTimeout>>
          ELSE \E hash \in (IF type = "add" THEN FileHashes ELSE {NoHash}) :
                  /\ pendingIndexChanges' = enqueueIndexChange(pendingIndexChanges,
                        [type |-> type, filePath |-> filePath, hash |-> hash])
                  /\ rebuildTimeout' = "armed"
    /\ UNCHANGED <<isIndexing, bulkPending, currentWatcher, watcherTimers, pc,
                   changesToProcess, workers, postIndexMaintenanceScheduled, booted,
                   droppedFlush>>
    /\ lastJob' = "none"

\* n add events for n new image files, each handled by onFileChange while no
\* job is in flight
BulkImport(n) ==
    /\ currentWatcher = "open"
    /\ ~isIndexing
    /\ bulkPending = 0
    /\ bulkPending' = n
    /\ rebuildTimeout' = "armed"
    /\ UNCHANGED <<isIndexing, pendingIndexChanges, currentWatcher, watcherTimers,
                   pc, changesToProcess, workers,
                   postIndexMaintenanceScheduled, booted, droppedFlush>>
    /\ lastJob' = "none"

\* enqueueManualChanges: every change is enqueued, then the timer is re-armed
EnqueueManualChanges(changes) ==
    /\ booted
    /\ Len(flattenPendingChanges(pendingIndexChanges)) + Len(changes) <= MaxPending
    /\ pendingIndexChanges' = EnqueueAll(pendingIndexChanges, changes, 1)
    /\ rebuildTimeout' = "armed"
    /\ UNCHANGED <<isIndexing, bulkPending, currentWatcher, watcherTimers, pc, changesToProcess, workers, postIndexMaintenanceScheduled, booted,
                   droppedFlush>>
    /\ lastJob' = "none"

\* a flush that finds a job in flight returns at once (lines 1614-1617)
SkipFlush_drainsFirst(p) ==
    /\ pendingIndexChanges' = ClearPending(pendingIndexChanges, bulkPending).entries
    /\ bulkPending' = ClearPending(pendingIndexChanges, bulkPending).bulk
    /\ pc' = [pc EXCEPT ![p] = "idle"]
    /\ droppedFlush' = droppedFlush
    /\ UNCHANGED <<isIndexing, changesToProcess, workers>>

SkipFlush(p) ==
    /\ pc' = [pc EXCEPT ![p] = "idle"]
    /\ droppedFlush' = IF PendingEmpty THEN droppedFlush ELSE "left"
    /\ UNCHANGED <<isIndexing, pendingIndexChanges, bulkPending, changesToProcess, workers>>

\* processPendingIndexChanges called by the flush callback p, up to its first
\* await; on escalation this includes buildSearchIndex up to its first await
processPendingIndexChanges(p) ==
    IF isIndexing
    THEN SkipFlush(p)
    ELSE IF PendingSize(pendingIndexChanges, bulkPending) = 0
    THEN /\ pc' = [pc EXCEPT ![p] = "idle"]
         /\ UNCHANGED <<isIndexing, pendingIndexChanges, bulkPending, changesToProcess,
                        workers, droppedFlush>>
    ELSE LET extracted == consolidateAndExtractChanges(pendingIndexChanges, bulkPending)
             cleared == ClearPending(pendingIndexChanges, bulkPending)
         IN /\ pendingIndexChanges' = cleared.entries
            /\ bulkPending' = cleared.bulk
            /\ droppedFlush' = IF droppedFlush = "left" THEN "drained" ELSE droppedFlush
            /\ IF ChangeCount(extracted) = 0
                  THEN /\ pc' = [pc EXCEPT ![p] = "idle"]
                       /\ UNCHANGED <<isIndexing, changesToProcess, workers>>
               ELSE IF ExceedsRebuildCeiling(ChangeCount(extracted))
                  THEN \* buildSearchIndex: the flag is clear here; with a watcher
                       \* open the call awaits currentWatcher.close() before it
                       \* sets the flag
                       /\ changesToProcess' = [changesToProcess EXCEPT ![p] = extracted]
                       /\ IF currentWatcher = "open"
                             THEN /\ pc' = [pc EXCEPT ![p] = "closing"]
                                  /\ UNCHANGED <<isIndexing, workers>>
                             ELSE /\ isIndexing' = TRUE
                                  /\ workers' = workers \cup
                                        {Worker(p, "rebuild_index", NoChanges)}
                                  /\ pc' = [pc EXCEPT ![p] = "awaitRebuild"]
               ELSE /\ isIndexing' = TRUE
                    /\ changesToProcess' = [changesToProcess EXCEPT ![p] = extracted]
                    /\ workers' = workers \cup {Worker(p, "process_changes", extracted)}
                    /\ pc' = [pc EXCEPT ![p] = "awaitApply"]

\* the debounce timer fires: the callback derives the album tags of the
\* pending snapshot and awaits their invalidation; with nothing pending it
\* goes straight on to processPendingIndexChanges, which returns
TimerFire(p) ==
    /\ p \in FlushProcs
    /\ pc[p] = "idle"
    /\ rebuildTimeout = "armed"
    /\ rebuildTimeout' = "idle"
    /\ IF PendingEmpty
          THEN UNCHANGED pc
          ELSE pc' = [pc EXCEPT ![p] = "invalidating"]
    /\ UNCHANGED <<isIndexing, pendingIndexChanges, bulkPending, currentWatcher,
                   watcherTimers, changesToProcess, workers,
                   postIndexMaintenanceScheduled, booted, droppedFlush>>
    /\ lastJob' = "none"

\* the cache invalidation is over: await processPendingIndexChanges()
FlushProcess(p) ==
    /\ p \in FlushProcs
    /\ pc[p] = "invalidating"
    /\ processPendingIndexChanges(p)
    /\ UNCHANGED <<rebuildTimeout, currentWatcher, watcherTimers, postIndexMaintenanceScheduled, booted>>
    /\ lastJob' = "none"

\* buildSearchIndex after await currentWatcher.close(): the flag is set
\* without a second look at it
AfterClose(p) ==
    /\ pc[p] = "closing"
    /\ currentWatcher' = "null"
    /\ isIndexing' = TRUE
    /\ workers' = workers \cup {Worker(p, "rebuild_index", NoChanges)}
    /\ pc' = [pc EXCEPT ![p] = "awaitRebuild"]
    /\ UNCHANGED <<pendingIndexChanges, bulkPending, rebuildTimeout, watcherTimers,
                   changesToProcess, postIndexMaintenanceScheduled,
                   booted, droppedFlush>>
    /\ lastJob' = "none"

\* the rebuild worker of p ends (completion, error message, error event or
\* exit): the finally block of buildSearchIndex
RebuildDone(p, ok) ==
    /\ pc[p] = "awaitRebuild"
    /\ HasWorker(p)
    /\ watcherTimers < MaxRestartTimers
    /\ workers' = workers \ {WorkerOf(p)}
    /\ isIndexing' = FALSE
    /\ watcherTimers' = watcherTimers + 1
    /\ pc' = [pc EXCEPT ![p] = "idle"]
    /\ changesToProcess' = [changesToProcess EXCEPT ![p] = NoChanges]
    /\ UNCHANGED <<pendingIndexChanges, bulkPending, rebuildTimeout, currentWatcher,
                   postIndexMaintenanceScheduled, booted, droppedFlush>>
    /\ lastJob' = IF ok THEN "resolved" ELSE "rejected"

\* a restart timer fires (5 s after a rebuild, 30 s after a deferred start):
\* if (!isIndexing) watchPhotosDir()
WatcherTimerFire ==
    /\ watcherTimers > 0
    /\ watcherTimers' = watcherTimers - 1
    /\ currentWatcher' = IF isIndexing THEN currentWatcher ELSE "open"
    /\ UNCHANGED <<isIndexing, pendingIndexChanges, bulkPending, rebuildTimeout,
                   pc, changesToProcess, workers,
                   postIndexMaintenanceScheduled, booted, droppedFlush>>
    /\ lastJob' = "none"

\* the flag is released only when the worker succeeds
ApplyDone_flagKeptOnError(p, ok) ==
    /\ p \in FlushProcs
    /\ pc[p] = "awaitApply"
    /\ HasWorker(p)
    /\ workers' = workers \ {WorkerOf(p)}
    /\ isIndexing' = ~ok
    /\ pc' = [pc EXCEPT ![p] = "idle"]
    /\ changesToProcess' = [changesToProcess EXCEPT ![p] = NoChanges]
    /\ UNCHANGED <<pendingIndexChanges, bulkPending, rebuildTimeout, currentWatcher,
                   watcherTimers, postIndexMaintenanceScheduled, booted,
                   droppedFlush>>
    /\ lastJob' = IF ok THEN "resolved" ELSE "rejected"

\* the apply worker of the flush callback p ends: the finally block of
\* processPendingIndexChanges
ApplyDone(p, ok) ==
    /\ p \in FlushProcs
    /\ pc[p] = "awaitApply"
    /\ HasWorker(p)
    /\ workers' = workers \ {WorkerOf(p)}
    /\ isIndexing' = FALSE
    /\ pc' = [pc EXCEPT ![p] = "idle"]
    /\ changesToProcess' = [changesToProcess EXCEPT ![p] = NoChanges]
    /\ UNCHANGED <<pendingIndexChanges, bulkPending, rebuildTimeout, currentWatcher,
                   watcherTimers, postIndexMaintenanceScheduled, booted,
                   droppedFlush>>
    /\ lastJob' = IF ok THEN "resolved" ELSE "rejected"

\* processManualChanges sets the flag and starts its worker (lines 1663-1666)
ManualStart(p, consolidated) ==
    /\ isIndexing' = TRUE
    /\ changesToProcess' = [changesToProcess EXCEPT ![p] = consolidated]
    /\ workers' = workers \cup {Worker(p, "process_changes", consolidated)}
    /\ pc' = [pc EXCEPT ![p] = "awaitApply"]

\* processManualChanges(changes) up to its first pause
ManualCall(p, changes) ==
    /\ p \in ManualProcs
    /\ booted
    /\ pc[p] = "idle"
    /\ LET consolidated == [changes |-> consolidateIndexChanges(changes), bulk |-> 0]
       IN IF ChangeCount(consolidated) = 0
             THEN UNCHANGED <<isIndexing, changesToProcess, workers, pc>>
          ELSE IF isIndexing
             THEN /\ changesToProcess' = [changesToProcess EXCEPT ![p] = consolidated]
                  /\ pc' = [pc EXCEPT ![p] = "waitIdle"]
                  /\ UNCHANGED <<isIndexing, workers>>
          ELSE ManualStart(p, consolidated)
    /\ UNCHANGED <<pendingIndexChanges, bulkPending, rebuildTimeout, currentWatcher,
                   watcherTimers, postIndexMaintenanceScheduled, booted,
                   droppedFlush>>
    /\ lastJob' = "none"

\* the 250 ms poll of processManualChanges finds the flag clear
ManualPoll(p) ==
    /\ p \in ManualProcs
    /\ pc[p] = "waitIdle"
    /\ ~isIndexing
    /\ ManualStart(p, changesToProcess[p])
    /\ UNCHANGED <<pendingIndexChanges, bulkPending, rebuildTimeout, currentWatcher,
                   watcherTimers, postIndexMaintenanceScheduled, booted,
                   droppedFlush>>
    /\ lastJob' = "none"

\* 60 s have passed with the flag still set: processManualChanges throws
ManualTimeout(p) ==
    /\ p \in ManualProcs
    /\ pc[p] = "waitIdle"
    /\ isIndexing
    /\ pc' = [pc EXCEPT ![p] = "idle"]
    /\ changesToProcess' = [changesToProcess EXCEPT ![p] = NoChanges]
    /\ UNCHANGED <<isIndexing, pendingIndexChanges, bulkPending, rebuildTimeout,
                   currentWatcher, watcherTimers, workers,
                   postIndexMaintenanceScheduled, booted, droppedFlush>>
    /\ lastJob' = "none"

\* the apply worker of processManualChanges ends; on success
\* schedulePostIndexMaintenance() runs before the finally block
ManualDone(p, ok) ==
    /\ p \in ManualProcs
    /\ pc[p] = "awaitApply"
    /\ HasWorker(p)
    /\ workers' = workers \ {WorkerOf(p)}
    /\ postIndexMaintenanceScheduled' = (postIndexMaintenanceScheduled \/ ok)
    /\ isIndexing' = FALSE
    /\ pc' = [pc EXCEPT ![p] = "idle"]
    /\ changesToProcess' = [changesToProcess EXCEPT ![p] = NoChanges]
    /\ UNCHANGED <<pendingIndexChanges, bulkPending, rebuildTimeout, currentWatcher,
                   watcherTimers, booted, droppedFlush>>
    /\ lastJob' = IF ok THEN "resolved" ELSE "rejected"

\* the scheduled maintenance callback runs: runIndexingTask('post_index_backfill')
MaintenanceStart ==
    /\ postIndexMaintenanceScheduled
    /\ ~HasWorker(MaintenanceOwner)
    /\ workers' = workers \cup {Worker(MaintenanceOwner, "post_index_backfill", NoChanges)}
    /\ UNCHANGED <<isIndexing, pendingIndexChanges, bulkPending, rebuildTimeout,
                   currentWatcher, watcherTimers, pc, changesToProcess,
                   postIndexMaintenanceScheduled, booted, droppedFlush>>
    /\ lastJob' = "none"

\* the maintenance worker ends, failure ignored: postIndexMaintenanceScheduled = false
MaintenanceDone ==
    /\ HasWorker(MaintenanceOwner)
    /\ workers' = workers \ {WorkerOf(MaintenanceOwner)}
    /\ postIndexMaintenanceScheduled' = FALSE
    /\ UNCHANGED <<isIndexing, pendingIndexChanges, bulkPending, rebuildTimeout,
                   currentWatcher, watcherTimers, pc, changesToProcess,
                   booted, droppedFlush>>
    /\ lastJob' = "none"

(***************************************************************************)
(* rebuild_index (indexing-worker.js 223-303)                              *)
(*                                                                         *)
(* One worker at a time runs the task; a kill ends it wherever it is and   *)
(* leaves the tables as committed.  While no worker runs, the checkpointed *)
(* path may disappear from the tree.                                       *)
(***************************************************************************)
EmptyTables ==
    /\ items = {}
    /\ thumbStatus = {}
    /\ albumCovers = {}
    /\ last_processed_path = NULL
    /\ indexStatus = NoStatus

NoWorkerState ==
    /\ rpc = "idle"
    /\ lastProcessedPath = NULL
    /\ walk = <<>>
    /\ batch = <<>>
    /\ shouldProcess = FALSE
    /\ count = 0
    /\ stops = 0
    /\ interrupted = FALSE
    /\ checkpointGone = FALSE
    /\ checkpointed = FALSE

RebuildIdle == tree = {} /\ EmptyTables /\ NoWorkerState

RebuildInit == tree \in Trees /\ EmptyTables /\ NoWorkerState

\* the worker is gone: its locals with it
DropLocals ==
    /\ lastProcessedPath' = NULL
    /\ walk' = <<>>
    /\ batch' = <<>>
    /\ shouldProcess' = FALSE
    /\ count' = 0

\* a start that clears the tables whether or not a checkpoint exists
RebuildStart_alwaysClears ==
    /\ rpc \in {"idle", "killed", "failed", "done"}
    /\ lastProcessedPath' = last_processed_path
    /\ indexStatus' = [status |-> "building", processed_files |-> 0]
    /\ items' = {}
    /\ count' = 0
    /\ UNCHANGED <<interrupted, checkpointGone, checkpointed>>
    /\ batch' = <<>>
    /\ shouldProcess' = (last_processed_path = NULL)
    /\ walk' = walkDirStream(tree)
    /\ rpc' = "walk"
    /\ UNCHANGED <<tree, thumbStatus, albumCovers, last_processed_path, stops>>

\* lines 226-247: read the checkpoint; without one reset index_status and
\* clear items; read processed_files; open the walk
RebuildStart ==
    /\ rpc \in {"idle", "killed", "failed", "done"}
    /\ lastProcessedPath' = last_processed_path
    /\ IF last_processed_path = NULL
          THEN /\ indexStatus' = [status |-> "building", processed_files |-> 0]
               /\ items' = {}
               /\ count' = 0
               /\ interrupted' = FALSE
               /\ checkpointGone' = FALSE
               /\ checkpointed' = FALSE
          ELSE /\ count' = indexStatus.processed_files
               /\ UNCHANGED <<indexStatus, items, interrupted, checkpointGone, checkpointed>>
    /\ batch' = <<>>
    /\ shouldProcess' = (last_processed_path = NULL)
    /\ walk' = walkDirStream(tree)
    /\ rpc' = "walk"
    /\ UNCHANGED <<tree, thumbStatus, albumCovers, last_processed_path, stops>>

\* the test that ends the skipping (line 250)
ReachedCheckpoint_never(item) == FALSE

ReachedCheckpoint(item) == item.path = lastProcessedPath

\* one iteration of the for await loop up to the batch test (lines 249-256)
WalkNext ==
    /\ rpc = "walk"
    /\ walk # <<>>
    /\ LET item == Head(walk)
           process == shouldProcess \/ ReachedCheckpoint(item)
       IN /\ shouldProcess' = process
          /\ batch' = IF process THEN Append(batch, item) ELSE batch
          /\ rpc' = IF process /\ Len(batch) + 1 >= BatchSize THEN "batchTx" ELSE "walk"
    /\ walk' = Tail(walk)
    /\ UNCHANGED <<tree, dbVars, lastProcessedPath, count, stops, interrupted, checkpointGone, checkpointed>>

\* the checkpoint is written for a batch whose rows are not committed
BatchCommit_checkpointsFirst ==
    /\ rpc = "batchTx"
    /\ last_processed_path' = batch[Len(batch)].path
    /\ rpc' = "checkpoint"
    /\ UNCHANGED <<tree, items, thumbStatus, albumCovers, indexStatus, localVars,
                   stops, interrupted, checkpointGone, checkpointed>>

\* lines 257-261: probe, START TRANSACTION, the upserts, COMMIT
BatchCommit ==
    /\ rpc = "batchTx"
    /\ items' = UpsertItems(items, processDimensionsInParallel(batch), 1)
    /\ thumbStatus' = UpsertThumbs(thumbStatus, processDimensionsInParallel(batch), 1)
    /\ rpc' = "checkpoint"
    /\ UNCHANGED <<tree, albumCovers, last_processed_path, indexStatus, localVars,
                   stops, interrupted, checkpointGone, checkpointed>>

\* lines 262-265: the checkpoint names the last item of the committed batch
CheckpointWrite ==
    /\ rpc = "checkpoint"
    /\ last_processed_path' = batch[Len(batch)].path
    /\ rpc' = "progress"
    /\ checkpointed' = TRUE
    /\ UNCHANGED <<tree, items, thumbStatus, albumCovers, indexStatus, localVars,
                   stops, interrupted, checkpointGone>>

\* UPDATE index_status SET processed_files = ? WHERE id = 1
SetProcessedFiles(row, n) ==
    IF row.status = NULL THEN row ELSE [row EXCEPT !.processed_files = n]

\* lines 270-273
ProgressWrite ==
    /\ rpc = "progress"
    /\ count' = count + Len(batch)
    /\ indexStatus' = SetProcessedFiles(indexStatus, count + Len(batch))
    /\ batch' = <<>>
    /\ rpc' = "walk"
    /\ UNCHANGED <<tree, items, thumbStatus, albumCovers, last_processed_path,
                   lastProcessedPath, walk, shouldProcess, stops, interrupted, checkpointGone, checkpointed>>

\* the walk is over (line 276)
WalkEnd ==
    /\ rpc = "walk"
    /\ walk = <<>>
    /\ rpc' = IF Len(batch) > 0 THEN "lastTx" ELSE "finish"
    /\ UNCHANGED <<tree, dbVars, localVars, stops, interrupted, checkpointGone, checkpointed>>

\* lines 277-281: the last, short batch
LastCommit ==
    /\ rpc = "lastTx"
    /\ items' = UpsertItems(items, processDimensionsInParallel(batch), 1)
    /\ thumbStatus' = UpsertThumbs(thumbStatus, processDimensionsInParallel(batch), 1)
    /\ rpc' = "lastProgress"
    /\ UNCHANGED <<tree, albumCovers, last_processed_path, indexStatus, localVars,
                   stops, interrupted, checkpointGone, checkpointed>>

\* lines 286-287
LastProgress ==
    /\ rpc = "lastProgress"
    /\ count' = count + Len(batch)
    /\ indexStatus' = SetProcessedFiles(indexStatus, count + Len(batch))
    /\ rpc' = "finish"
    /\ UNCHANGED <<tree, items, thumbStatus, albumCovers, last_processed_path,
                   lastProcessedPath, walk, batch, shouldProcess, stops, interrupted,
                   checkpointGone, checkpointed>>

\* line 290: DELETE FROM index_progress WHERE key = 'last_processed_path'
DeleteCheckpoint ==
    /\ rpc = "finish"
    /\ last_processed_path' = NULL
    /\ rpc' = "markComplete"
    /\ UNCHANGED <<tree, items, thumbStatus, albumCovers, indexStatus, localVars,
                   stops, interrupted, checkpointGone, checkpointed>>

\* line 291: UPDATE index_status SET status = 'complete', processed_files = ?
MarkComplete ==
    /\ rpc = "markComplete"
    /\ indexStatus' = IF indexStatus.status = NULL THEN indexStatus
                      ELSE [status |-> "complete", processed_files |-> count]
    /\ rpc' = "covers"
    /\ UNCHANGED <<tree, items, thumbStatus, albumCovers, last_processed_path, localVars,
                   stops, interrupted, checkpointGone, checkpointed>>

\* lines 296-297: rebuildAlbumCoversFromItems, which logs and drops an error
\* of its own (line 130), then rebuild_complete
CoversAndComplete(ok) ==
    /\ rpc = "covers"
    /\ albumCovers' = IF ok THEN rebuildAlbumCoversFromItems(albumCovers, items)
                      ELSE albumCovers
    /\ rpc' = "done"
    /\ UNCHANGED <<tree, items, thumbStatus, last_processed_path, indexStatus, localVars,
                   stops, interrupted, checkpointGone, checkpointed>>

RebuildRunning == rpc \notin {"idle", "killed", "failed", "done"}

\* a statement of the task throws: ROLLBACK, the error is posted (lines
\* 266-269, 282-285, 298-302); nothing uncommitted reaches the tables.
\* rebuildAlbumCoversFromItems catches its own errors (line 130), so no
\* statement throws once index_status is complete
RebuildFail ==
    /\ RebuildRunning
    /\ rpc # "covers"
    /\ stops < MaxStops
    /\ stops' = stops + 1
    /\ rpc' = "failed"
    /\ DropLocals
    /\ UNCHANGED <<tree, dbVars, interrupted, checkpointGone, checkpointed>>

\* the worker is killed
RebuildKill ==
    /\ RebuildRunning
    /\ stops < MaxStops
    /\ stops' = stops + 1
    /\ rpc' = "killed"
    /\ DropLocals
    /\ interrupted' = (interrupted \/ last_processed_path # NULL)
    /\ UNCHANGED <<tree, dbVars, checkpointGone, checkpointed>>

\* the paths at or under path
Subtree(path) == {q \in RelPaths : q = path \/ path \in enumerateParentAlbums(q)}

\* while no worker runs, the checkpointed path is removed from the tree
RemoveCheckpointedPath ==
    /\ rpc \in {"killed", "failed"}
    /\ last_processed_path \in tree
    /\ tree' = tree \ Subtree(last_processed_path)
    /\ checkpointGone' = TRUE
    /\ UNCHANGED <<dbVars, rpc, localVars, stops, interrupted, checkpointed>>

(***************************************************************************)
(* SpecConsolidate: every raw event list of at most MaxLen events is       *)
(* consolidated once.                                                      *)
(***************************************************************************)
ConInit ==
    /\ conIn \in SeqsUpTo(Changes, MaxLen)
    /\ conOut = <<>>
    /\ conPc = "call"

ConIdle ==
    /\ conIn = <<>>
    /\ conOut = <<>>
    /\ conPc = "call"

CallConsolidate ==
    /\ conPc = "call"
    /\ conOut' = consolidateIndexChanges(conIn)
    /\ conPc' = "returned"
    /\ UNCHANGED conIn

InitConsolidate == ConInit /\ OrchInit /\ RebuildIdle /\ ApplyIdle /\ RetryIdle /\ WatchIdle
    /\ TagIdle /\ TimerIdle /\ TaskIdle /\ LifeIdle

othersOfConsolidate == <<orchVars, rebuildVars, applyVars, retryVars, watching, tagVars, timerVars, taskVars, lifeVars>>

NextConsolidate == CallConsolidate /\ UNCHANGED othersOfConsolidate

SpecConsolidate == InitConsolidate /\ [][NextConsolidate]_vars

(***************************************************************************)
(* Spec: the orchestrator                                                  *)
(***************************************************************************)
Init == ConIdle /\ OrchInit /\ RebuildIdle /\ ApplyIdle /\ RetryIdle /\ WatchIdle
    /\ TagIdle /\ TimerIdle /\ TaskIdle /\ LifeIdle

othersOfOrch == <<conVars, rebuildVars, applyVars, retryVars, watching, tagVars, timerVars, taskVars, lifeVars>>

Next ==
    \/ \E rebuild \in BOOLEAN : StartServer(rebuild) /\ UNCHANGED othersOfOrch
    \/ \E ev \in WatchEvents : onFileChange(ev[1], ev[2]) /\ UNCHANGED othersOfOrch
    \/ \E n \in BulkSizes : BulkImport(n) /\ UNCHANGED othersOfOrch
    \/ \E changes \in ManualInputs : EnqueueManualChanges(changes) /\ UNCHANGED othersOfOrch
    \/ \E p \in FlushProcs : TimerFire(p) /\ UNCHANGED othersOfOrch
    \/ \E p \in FlushProcs : FlushProcess(p) /\ UNCHANGED othersOfOrch
    \/ \E p \in FlushProcs : AfterClose(p) /\ UNCHANGED othersOfOrch
    \/ \E p \in Procs, ok \in BOOLEAN : RebuildDone(p, ok) /\ UNCHANGED othersOfOrch
    \/ WatcherTimerFire /\ UNCHANGED othersOfOrch
    \/ \E p \in FlushProcs, ok \in BOOLEAN : ApplyDone(p, ok) /\ UNCHANGED othersOfOrch
    \/ \E p \in ManualProcs, changes \in ManualInputs : ManualCall(p, changes) /\ UNCHANGED othersOfOrch
    \/ \E p \in ManualProcs : ManualPoll(p) /\ UNCHANGED othersOfOrch
    \/ \E p \in ManualProcs : ManualTimeout(p) /\ UNCHANGED othersOfOrch
    \/ \E p \in ManualProcs, ok \in BOOLEAN : ManualDone(p, ok) /\ UNCHANGED othersOfOrch
    \/ MaintenanceStart /\ UNCHANGED othersOfOrch
    \/ MaintenanceDone /\ UNCHANGED othersOfOrch

Spec == Init /\ [][Next]_vars

(***************************************************************************)
(* Claims about the orchestrator                                           *)
(***************************************************************************)
IndexJobs == {w \in workers : w.type \in {"rebuild_index", "process_changes"}}

\* C1: at most one rebuild or apply worker is in flight at any time.
C1_AtMostOneIndexJob == Cardinality(IndexJobs) <= 1

\* the step by which the flush callback p leaves processPendingIndexChanges'
\* synchronous part
FlushStep(p) == pc[p] = "invalidating" /\ pc'[p] # "invalidating"

\* C2: a flush that reaches processPendingIndexChanges while isIndexing is
\* set starts no worker and leaves the pending buffer as it was.
C2_SkippedFlushTouchesNothing ==
    [][\A p \in FlushProcs :
          (FlushStep(p) /\ isIndexing) =>
              /\ pendingIndexChanges' = pendingIndexChanges
              /\ bulkPending' = bulkPending
              /\ workers' = workers
              /\ pc'[p] = "idle"]_vars

\* a flush was skipped with events pending, and the job is still in flight
C2_Witness ==
    /\ droppedFlush = "left"
    /\ isIndexing
    /\ ~PendingEmpty
    /\ IndexJobs # {}
    /\ \A p \in FlushProcs : pc[p] = "idle"

\* nothing is armed, in flight or scheduled: no step but a new input can happen
Quiescent ==
    /\ rebuildTimeout = "idle"
    /\ watcherTimers = 0
    /\ workers = {}
    /\ ~postIndexMaintenanceScheduled
    /\ \A p \in Procs : pc[p] = "idle"

\* C3 as stated: the events a skipped flush left behind are handed to a job
\* once timers have fired and jobs have ended, so that no run comes to rest
\* with them still in the buffer.
C3_LeftoversAlwaysHanded == Quiescent => droppedFlush # "left"

\* every bucket of the buffer is kept, possibly with events appended
BufferKept ==
    /\ bulkPending' >= bulkPending
    /\ \A i \in 1..Len(pendingIndexChanges) :
          LET key == pendingIndexChanges[i].key
              bucket == pendingIndexChanges[i].value
          IN /\ MapHas(pendingIndexChanges', key)
             /\ Len(MapGet(pendingIndexChanges', key)) >= Len(bucket)
             /\ SubSeq(MapGet(pendingIndexChanges', key), 1, Len(bucket)) = bucket

\* the flush step of p hands the whole buffer on: to an apply worker, to a
\* rebuild, or to nobody when every event cancelled out
BufferHanded(p) ==
    LET extracted == consolidateAndExtractChanges(pendingIndexChanges, bulkPending)
    IN /\ pendingIndexChanges' = <<>>
       /\ bulkPending' = 0
       /\ \/ ChangeCount(extracted) = 0
          \/ pc'[p] \in {"closing", "awaitRebuild"}
          \/ /\ pc'[p] = "awaitApply"
             /\ Worker(p, "process_changes", extracted) \in workers'

\* C3, amended: what a skipped flush left behind stays in the buffer, and the
\* skipped flush does not re-arm the timer; the next flush that runs with no
\* job in flight hands the whole buffer on.
C3_LeftoversWaitForNextFlush ==
    [][/\ \A p \in FlushProcs :
             (FlushStep(p) /\ isIndexing) => rebuildTimeout' = rebuildTimeout
       /\ \A p \in FlushProcs :
             (FlushStep(p) /\ ~isIndexing /\ ~PendingEmpty) => BufferHanded(p)
       /\ droppedFlush = "left" =>
             \/ BufferKept
             \/ \E p \in FlushProcs : FlushStep(p) /\ ~isIndexing /\ BufferHanded(p)]_vars

\* the leftovers of a skipped flush were drained by a later flush into an
\* apply job
C3_Witness ==
    /\ droppedFlush = "drained"
    /\ PendingEmpty
    /\ \E p \in FlushProcs :
          /\ pc[p] = "awaitApply"
          /\ HasWorker(p)
          /\ WorkerOf(p).type = "process_changes"

\* C9: a flush whose consolidated count is above 5000 goes on to a rebuild and
\* sends no apply job; one whose count is between 1 and 5000 sends an apply
\* job and starts no rebuild.
C9_CeilingDecidesJob ==
    \A p \in FlushProcs :
        LET n == ChangeCount(changesToProcess[p])
        IN /\ n > 5000 =>
                /\ pc[p] \in {"closing", "awaitRebuild"}
                /\ pc[p] = "awaitRebuild" => HasWorker(p)
                /\ HasWorker(p) => WorkerOf(p).type = "rebuild_index"
           /\ (n >= 1 /\ n <= 5000) =>
                /\ pc[p] = "awaitApply"
                /\ HasWorker(p)
                /\ WorkerOf(p).type = "process_changes"
           /\ pc[p] \in {"closing", "awaitRebuild"} => n > 5000
           /\ pc[p] = "awaitApply" => (n >= 1 /\ n <= 5000)

\* 5001 consolidated changes: the flush is waiting for its rebuild worker
C9_Witness ==
    \E p \in FlushProcs :
        /\ ChangeCount(changesToProcess[p]) = 5001
        /\ pc[p] = "awaitRebuild"
        /\ HasWorker(p)
        /\ WorkerOf(p).type = "rebuild_index"

\* the events of one path, in input order
EventsOf(p, changes) == SelectSeq(changes, LAMBDA c : c.filePath = p)

TypesOf(p, changes) == [i \in 1..Len(EventsOf(p, changes)) |-> EventsOf(p, changes)[i].type]

\* C4: when the events of a path are exactly add then unlink, or addDir then
\* unlinkDir, the consolidated output has no entry for that path, whatever
\* hash the add carries.
C4_AddUnlinkCancels ==
    conPc = "returned" =>
        \A p \in Paths :
            TypesOf(p, conIn) \in {<<"add", "unlink">>, <<"addDir", "unlinkDir">>}
                => EventsOf(p, conOut) = <<>>

\* an add with a hash followed by an unlink was consolidated away while the
\* other path kept an entry
C4_Witness ==
    /\ conPc = "returned"
    /\ \E p \in Paths :
        /\ TypesOf(p, conIn) = <<"add", "unlink">>
        /\ EventsOf(p, conIn)[1].hash # NoHash
        /\ EventsOf(p, conOut) = <<>>
        /\ conOut # <<>>

\* C5: when the events of a path are exactly unlink then add, or unlinkDir
\* then addDir, the output has exactly one entry for the path, of type update.
C5_UnlinkAddIsUpdate ==
    conPc = "returned" =>
        \A p \in Paths :
            TypesOf(p, conIn) \in {<<"unlink", "add">>, <<"unlinkDir", "addDir">>}
                => TypesOf(p, conOut) = <<"update">>

C5_Witness ==
    /\ conPc = "returned"
    /\ \E p \in Paths :
        /\ TypesOf(p, conIn) = <<"unlinkDir", "addDir">>
        /\ TypesOf(p, conOut) = <<"update">>

\* C6: when the events of a path are exactly two adds that carry the same
\* content hash, the output has exactly one entry for the path, of type add.
C6_DuplicateAddStaysAdd ==
    conPc = "returned" =>
        \A p \in Paths :
            LET ev == EventsOf(p, conIn)
            IN  (/\ TypesOf(p, conIn) = <<"add", "add">>
                 /\ ev[1].hash \in Hashes
                 /\ ev[1].hash = ev[2].hash)
                    => /\ TypesOf(p, conOut) = <<"add">>
                       /\ EventsOf(p, conOut)[1].hash = ev[1].hash

C6_Witness ==
    /\ conPc = "returned"
    /\ \E p \in Paths :
        /\ TypesOf(p, conIn) = <<"add", "add">>
        /\ EventsOf(p, conIn)[1].hash = "h1"
        /\ EventsOf(p, conIn)[2].hash = "h1"
        /\ TypesOf(p, conOut) = <<"add">>

\* the pairs the cancel, replace and duplicate-add rules cover
CoveredPair(e1, e2) ==
    \/ <<e1.type, e2.type>> \in {<<"add", "unlink">>, <<"addDir", "unlinkDir">>}
    \/ <<e1.type, e2.type>> \in {<<"unlink", "add">>, <<"unlinkDir", "addDir">>}
    \/ e1.type = "add" /\ e2.type = "add" /\ e1.hash \in Hashes /\ e1.hash = e2.hash

C8_OneEntryPerPath ==
    conPc = "returned" =>
        \A p \in Paths :
            /\ Len(EventsOf(p, conOut)) <= 1
            /\ Len(EventsOf(p, conIn)) = 1 => EventsOf(p, conOut) = EventsOf(p, conIn)

\* three events on one path and one on the other: one entry each
C8_Witness ==
    /\ conPc = "returned"
    /\ \E p, q \in Paths :
        /\ Len(EventsOf(p, conIn)) = 2
        /\ Len(EventsOf(q, conIn)) = 1
        /\ Len(EventsOf(p, conOut)) = 1
        /\ EventsOf(q, conOut) = EventsOf(q, conIn)

(***************************************************************************)
(* SpecRebuild: rebuild_index over every tree, with kills, failures and    *)
(* restarts                                                                *)
(***************************************************************************)
InitRebuild == ConIdle /\ OrchInit /\ RebuildInit /\ ApplyIdle /\ RetryIdle /\ WatchIdle
    /\ TagIdle /\ TimerIdle /\ TaskIdle /\ LifeIdle

othersOfRebuild == <<conVars, orchVars, applyVars, retryVars, watching, tagVars, timerVars, taskVars, lifeVars>>

NextRebuild ==
    \/ RebuildStart /\ UNCHANGED othersOfRebuild
    \/ WalkNext /\ UNCHANGED othersOfRebuild
    \/ BatchCommit /\ UNCHANGED othersOfRebuild
    \/ CheckpointWrite /\ UNCHANGED othersOfRebuild
    \/ ProgressWrite /\ UNCHANGED othersOfRebuild
    \/ WalkEnd /\ UNCHANGED othersOfRebuild
    \/ LastCommit /\ UNCHANGED othersOfRebuild
    \/ LastProgress /\ UNCHANGED othersOfRebuild
    \/ DeleteCheckpoint /\ UNCHANGED othersOfRebuild
    \/ MarkComplete /\ UNCHANGED othersOfRebuild
    \/ \E ok \in BOOLEAN : CoversAndComplete(ok) /\ UNCHANGED othersOfRebuild
    \/ RebuildFail /\ UNCHANGED othersOfRebuild
    \/ RebuildKill /\ UNCHANGED othersOfRebuild
    \/ RemoveCheckpointedPath /\ UNCHANGED othersOfRebuild

SpecRebuild == InitRebuild /\ [][NextRebuild]_vars

\* the items table an uninterrupted rebuild of tree t ends with
UninterruptedItems(t) == UpsertItems({}, processDimensionsInParallel(walkDirStream(t)), 1)

\* C10: when a rebuild completes, also one resumed from a checkpoint whose
\* path has left the tree, items holds every row of the table an
\* uninterrupted rebuild of the tree produces.
C10_ResumeCoversUninterrupted == rpc = "done" => UninterruptedItems(tree) \subseteq items

\* as long as the checkpointed path is still in the tree, a completed rebuild
\* does end with the table of an uninterrupted one
ResumeOnSameTree == (rpc = "done" /\ ~checkpointGone) => items = UninterruptedItems(tree)

ResumedOnSameTree == rpc = "done" /\ interrupted /\ ~checkpointGone

\* C11: a rebuild that resumes from a checkpoint never puts the checkpointed
\* entry itself into a batch (so it is neither upserted nor counted again).
C11_CheckpointedEntrySkipped ==
    lastProcessedPath # NULL =>
        \A i \in 1..Len(batch) : batch[i].path # lastProcessedPath

\* a step that starts rebuild_index
RebuildStartStep == rpc \in {"idle", "killed", "failed", "done"} /\ rpc' = "walk"

\* C12: the start of rebuild_index clears items and resets index_status to
\* building with processed_files 0 exactly when no checkpoint exists; with a
\* checkpoint it keeps the rows of items and the processed_files counter.
C12_ClearExactlyWithoutCheckpoint ==
    [][RebuildStartStep =>
          IF last_processed_path = NULL
             THEN /\ items' = {}
                  /\ indexStatus' = [status |-> "building", processed_files |-> 0]
             ELSE /\ items' = items
                  /\ indexStatus' = indexStatus]_vars

\* a rebuild has just started from a checkpoint, with rows and a count kept
C12_Witness ==
    /\ rpc = "walk"
    /\ walk = walkDirStream(tree)
    /\ lastProcessedPath # NULL
    /\ items # {}
    /\ indexStatus.processed_files > 0
    /\ count = indexStatus.processed_files

(***************************************************************************)
(* process_changes (indexing-worker.js 349-485): its inputs and the        *)
(* statements it runs                                                      *)
(***************************************************************************)
\* path.join(PHOTOS_DIR, rel)
AbsOf(rel) ==
    CASE rel = "A" -> "/photos/A"
      [] rel = "A/1.jpg" -> "/photos/A/1.jpg"
      [] rel = "A/2.jpg" -> "/photos/A/2.jpg"
      [] rel = "B" -> "/photos/B"
      [] rel = "B/3.mp4" -> "/photos/B/3.mp4"
      [] OTHER -> "/photos"

\* a media file that does not lie under PHOTOS_DIR
OutsidePath == "/other/9.jpg"

\* path.relative(photosDir, change.filePath).replace(/\\/g, '/')
relativePath(filePath) ==
    IF \E q \in RelPaths : AbsOf(q) = filePath
       THEN CHOOSE q \in RelPaths : AbsOf(q) = filePath
       ELSE "../other/9.jpg"

\* relativePath.startsWith('..')
StartsWithDotDot(rel) == rel = "../other/9.jpg"

\* the paths under PHOTOS_DIR the modelled change lists name: an album, a
\* photo in it, and a video
EventPaths == {"A", "A/1.jpg", "B/3.mp4"}

\* the raw events a change list is made of: directory events for
\* directories, file events (an add with its content hash) for media files
ApplyEvents ==
    {[type |-> ty, filePath |-> AbsOf(q), hash |-> NoHash] :
        ty \in {"addDir", "unlinkDir"}, q \in {x \in EventPaths : TypeOf(x) = "album"}}
    \cup {[type |-> "add", filePath |-> AbsOf(q), hash |-> h] :
        h \in Hashes, q \in {x \in EventPaths : TypeOf(x) = "photo"}}
    \cup {[type |-> "add", filePath |-> AbsOf(q), hash |-> "h1"] :
        q \in {x \in EventPaths : TypeOf(x) = "video"}}
    \cup {[type |-> "unlink", filePath |-> AbsOf(q), hash |-> NoHash] :
        q \in {x \in EventPaths : TypeOf(x) = "photo"}}
    \cup {[type |-> "add", filePath |-> OutsidePath, hash |-> "h1"]}

\* most raw events of one change list
MaxApplyEvents == 2

\* most process_changes workers of one run
MaxApplies == 2

\* most thumbnails the thumbnail service settles in one run
MaxThumbnails == 1

\* the status values the thumbnail service writes
SettledStatuses == {"exists", "failed"}

\* lines 366-381: the changes the loop keeps (none of the modelled names is
\* a database, log, playlist or segment file)
KeptChanges(chgs) ==
    SelectSeq(chgs, LAMBDA c : ~StartsWithDotDot(relativePath(c.filePath)))

SeqRange(sq) == {sq[i] : i \in 1..Len(sq)}

\* lines 383-388: every ancestor directory of every kept change
affectedAlbums(chgs) ==
    UNION {enumerateParentAlbums(relativePath(c.filePath)) : c \in SeqRange(KeptChanges(chgs))}

\* /\.(jpe?g|png|webp|gif)$/i.test(name)
IsImageName(name) == name \in {"1.jpg", "2.jpg"}

\* fs.stat(change.filePath).catch(() => ({ mtimeMs: Date.now() }))
StatMtime(rel, t, clock) == IF rel \in t THEN MtimeOf(rel) ELSE clock

\* lines 392-395: the add operation of one add or addDir change
AddOperation(c, t, clock) ==
    LET rel == relativePath(c.filePath)
        name == NameOf(rel)
    IN [name |-> name, path |-> rel,
        type |-> IF c.type = "addDir" THEN "album"
                 ELSE IF IsImageName(name) THEN "photo" ELSE "video",
        mtime |-> StatMtime(rel, t, clock)]

\* lines 391, 396: only these types are acted on; an update is neither
IsAddChange(c) == c.type \in {"add", "addDir"}
IsDeleteChange(c) == c.type \in {"unlink", "unlinkDir"}

addOperations(chgs, t, clock) ==
    LET adds == SelectSeq(KeptChanges(chgs), IsAddChange)
    IN [i \in 1..Len(adds) |-> AddOperation(adds[i], t, clock)]

deletePaths(chgs) ==
    {relativePath(c.filePath) : c \in {x \in SeqRange(KeptChanges(chgs)) : IsDeleteChange(x)}}

\* path LIKE 'dir/%'
IsUnder(q, dir) == dir \in enumerateParentAlbums(q)

\* line 408: DELETE FROM items WHERE path IN (...) OR path LIKE ...
DeleteItems(rows, dp) ==
    {r \in rows : r.path \notin dp /\ ~\E d \in dp : IsUnder(r.path, d)}

\* line 410: DELETE FROM thumb_status WHERE path IN (...)
DeleteThumbs(rows, dp) == {r \in rows : r.path \notin dp}

\* getMediaDimensions: the probed size, or 1920 x 1080 when the probe throws
\* (the file is not there)
getMediaDimensions(rel, t) ==
    IF rel \in t THEN [width |-> WidthOf(rel), height |-> HeightOf(rel)]
    ELSE [width |-> 1920, height |-> 1080]

\* processDimensionsInParallel over the add operations
ProbeAdds(ops, t) ==
    [i \in 1..Len(ops) |->
        [type |-> ops[i].type, path |-> ops[i].path, name |-> ops[i].name,
         mtime |-> ops[i].mtime,
         width |-> IF ops[i].type = "album" THEN NullDim
                   ELSE getMediaDimensions(ops[i].path, t).width,
         height |-> IF ops[i].type = "album" THEN NullDim
                    ELSE getMediaDimensions(ops[i].path, t).height]]

\* lines 432-439: the media rows under an album, and the newest of them
MediaUnder(rows, album) ==
    {m \in rows : m.type \in {"photo", "video"} /\ IsUnder(m.path, album)}

Newest(rows, album) ==
    {m \in MediaUnder(rows, album) : \A o \in MediaUnder(rows, album) : o.mtime <= m.mtime}

\* line 441: [albumPath, row.path, row.width || 1, row.height || 1, row.mtime || 0]
CoverRow(album, m) ==
    [album_path |-> album, cover_path |-> m.path,
     width |-> IF m.width = NullDim THEN 1 ELSE m.width,
     height |-> IF m.height = NullDim THEN 1 ELSE m.height,
     mtime |-> m.mtime]

\* lines 446-457: the upsert of the recomputed covers; pick names, for every
\* album with media, the row the SELECT ... LIMIT 1 returned
UpsertCovers(covers, albums, pick) ==
    {c \in covers : c.album_path \notin albums}
    \cup {CoverRow(a, pick[a]) : a \in albums}

\* lines 458-466: DELETE FROM album_covers WHERE album_path IN (...)
DeleteCovers(covers, albums) == {c \in covers : c.album_path \notin albums}

(***************************************************************************)
(* The process_changes worker as a state machine.  The statements between  *)
(* START TRANSACTION and COMMIT write the tables; ROLLBACK puts back what  *)
(* START TRANSACTION saw.                                                  *)
(***************************************************************************)
Tables == [items |-> items, thumbStatus |-> thumbStatus, albumCovers |-> albumCovers]

\* the tables a completed rebuild of tree t leaves behind
IndexOf(t) ==
    [items |-> UninterruptedItems(t),
     thumbStatus |-> UpsertThumbs({}, processDimensionsInParallel(walkDirStream(t)), 1),
     albumCovers |-> rebuildAlbumCoversFromItems({}, UninterruptedItems(t))]

\* the watcher reports no event outside PHOTOS_DIR, and onFileChange returns
\* at lines 1897-1900 for the add of a video
WatcherDelivers(ev) ==
    /\ ev.filePath # OutsidePath
    /\ ~(ev.type = "add" /\ IsVideoFile(ev.filePath))

\* the directories onFileChange saw removed (line 1926)
UnlinkedDirs(raw) ==
    {relativePath(ev.filePath) : ev \in {x \in SeqRange(raw) : x.type = "unlinkDir"}}

\* thumbStatusRepo.deleteByDirectory (line 1949)
WatcherThumbCleanup(rows, dirs) == {r \in rows : ~\E d \in dirs : IsUnder(r.path, d)}

\* albumCoversRepo.deleteByDirectory (line 1950): the cover rows of the
\* directory and of the albums under it
WatcherCoverCleanup(covers, dirs) ==
    {c \in covers : c.album_path \notin dirs /\ ~\E d \in dirs : IsUnder(c.album_path, d)}

\* lines 365-466 on tables T: the loop over the changes, the deletes, the
\* upserts and the cover maintenance.  The two statements whose rejection is
\* caught and dropped (lines 410 and 460-465) may fail.  Every table state
\* the statements can produce: one for each row the SELECT ... ORDER BY mtime
\* DESC LIMIT 1 may return for each album.
WriteOutcomes(T, chgs, t, clock, thumbDeleteFails, coverDeleteFails) ==
    LET dp == deletePaths(chgs)
        ops == ProbeAdds(addOperations(chgs, t, clock), t)
        newItems == UpsertItems(DeleteItems(T.items, dp), ops, 1)
        keptThumbs == IF thumbDeleteFails THEN T.thumbStatus
                      ELSE DeleteThumbs(T.thumbStatus, dp)
        albums == affectedAlbums(chgs)
        withMedia == {a \in albums : MediaUnder(newItems, a) # {}}
        deleteAlbumPaths == albums \ withMedia
        picks == {f \in [withMedia -> newItems] :
                     \A a \in withMedia : f[a] \in Newest(newItems, a)}
    IN {[items |-> newItems,
         thumbStatus |-> UpsertThumbs(keptThumbs, ops, 1),
         albumCovers |-> IF coverDeleteFails
                            THEN UpsertCovers(T.albumCovers, withMedia, pick)
                            ELSE DeleteCovers(UpsertCovers(T.albumCovers, withMedia, pick),
                                              deleteAlbumPaths)] : pick \in picks}

\* the albums whose cover row the apply deletes (lines 442-444)
deleteAlbumPathsOf(T, chgs, t, clock) ==
    LET newItems == UpsertItems(DeleteItems(T.items, deletePaths(chgs)),
                                ProbeAdds(addOperations(chgs, t, clock), t), 1)
    IN {a \in affectedAlbums(chgs) : MediaUnder(newItems, a) = {}}

\* A change list reaches a worker.  Through the watcher (viaWatcher), each
\* unlinkDir event has first run the cleanup of lines 1939-1956; a list
\* handed to processManualChanges has not.  The list is consolidated (lines
\* 1622, 1648), an empty result starts no worker (lines 1623, 1649), and the
\* worker runs up to START TRANSACTION (line 360).
ApplyStart(raw, viaWatcher) ==
    /\ apc = "idle"
    /\ applies < MaxApplies
    /\ viaWatcher => \A ev \in SeqRange(raw) : WatcherDelivers(ev)
    /\ consolidateIndexChanges(raw) # <<>>
    /\ applyChanges' = consolidateIndexChanges(raw)
    /\ thumbStatus' = IF viaWatcher THEN WatcherThumbCleanup(thumbStatus, UnlinkedDirs(raw))
                      ELSE thumbStatus
    /\ albumCovers' = IF viaWatcher THEN WatcherCoverCleanup(albumCovers, UnlinkedDirs(raw))
                      ELSE albumCovers
    /\ before' = [items |-> items, thumbStatus |-> thumbStatus', albumCovers |-> albumCovers']
    /\ now' = now + 1
    /\ swallowed' = FALSE
    /\ applies' = applies + 1
    /\ apc' = "tx"
    /\ UNCHANGED <<tree, items>>

\* lines 365-466, inside the transaction
ApplyWrites(thumbDeleteFails, coverDeleteFails) ==
    /\ apc = "tx"
    /\ thumbDeleteFails => deletePaths(applyChanges) # {}
    /\ coverDeleteFails => deleteAlbumPathsOf(Tables, applyChanges, tree, now) # {}
    /\ \E out \in WriteOutcomes(Tables, applyChanges, tree, now,
                                thumbDeleteFails, coverDeleteFails) :
          /\ items' = out.items
          /\ thumbStatus' = out.thumbStatus
          /\ albumCovers' = out.albumCovers
    /\ swallowed' = (thumbDeleteFails \/ coverDeleteFails)
    /\ apc' = "commit"
    /\ UNCHANGED <<tree, applyChanges, before, now, applies>>

\* line 468: COMMIT
ApplyCommit ==
    /\ apc = "commit"
    /\ apc' = "invalidate"
    /\ UNCHANGED <<tree, items, thumbStatus, albumCovers, applyChanges, before, now,
                   swallowed, applies>>

\* a statement of the transaction, or COMMIT, throws: lines 478-481 roll
\* back and post the error
ApplyFail ==
    /\ apc \in {"tx", "commit"}
    /\ items' = before.items
    /\ thumbStatus' = before.thumbStatus
    /\ albumCovers' = before.albumCovers
    /\ apc' = "failed"
    /\ UNCHANGED <<tree, applyChanges, before, now, swallowed, applies>>

\* lines 470-475: invalidateTags, then process_changes_complete.  When
\* invalidateTags throws, the catch block of lines 478-481 runs ROLLBACK,
\* which finds no open transaction, and posts the error.
ApplyInvalidate(ok) ==
    /\ apc = "invalidate"
    /\ ~ok => KeptChanges(applyChanges) # <<>>
    /\ apc' = IF ok THEN "done" ELSE "failed"
    /\ UNCHANGED <<tree, items, thumbStatus, albumCovers, applyChanges, before, now,
                   swallowed, applies>>

\* the disposable worker is gone, its locals with it
ApplyExit ==
    /\ apc \in {"done", "failed"}
    /\ apc' = "idle"
    /\ applyChanges' = <<>>
    /\ before' = NoTables
    /\ swallowed' = FALSE
    /\ UNCHANGED <<tree, items, thumbStatus, albumCovers, now, applies>>

\* the thumbnail service settles the thumbnail of one pending row: UPDATE
\* thumb_status SET status = ?, last_checked = ... WHERE path = ?
ThumbnailSettled(rel, status) ==
    /\ apc = "idle"
    /\ Cardinality({r \in thumbStatus : r.status # "pending"}) < MaxThumbnails
    /\ \E r \in thumbStatus : r.path = rel /\ r.status = "pending"
    /\ thumbStatus' = {IF r.path = rel
                          THEN [r EXCEPT !.status = status, !.last_checked = now]
                          ELSE r :
                          r \in thumbStatus}
    /\ UNCHANGED <<tree, items, albumCovers, apc, applyChanges, before, now, swallowed,
                   applies>>

(***************************************************************************)
(* SpecApply: the index of a tree, and up to MaxApplies change lists       *)
(* applied to it one after the other                                       *)
(***************************************************************************)
InitApply ==
    /\ ConIdle /\ OrchInit /\ NoWorkerState /\ ApplyIdle /\ RetryIdle /\ WatchIdle
    /\ TagIdle /\ TimerIdle /\ TaskIdle /\ LifeIdle
    /\ tree \in Trees
    /\ items = IndexOf(tree).items
    /\ thumbStatus = IndexOf(tree).thumbStatus
    /\ albumCovers = IndexOf(tree).albumCovers
    /\ indexStatus = [status |-> "complete", processed_files |-> Cardinality(tree)]
    /\ last_processed_path = NULL

othersOfApply ==
    <<conVars, orchVars, last_processed_path, indexStatus, rpc, localVars, stops,
      interrupted, checkpointGone, checkpointed, retryVars, watching, tagVars, timerVars, taskVars, lifeVars>>

ApplyInputs == SeqsUpTo(ApplyEvents, MaxApplyEvents)

NextApply ==
    \/ \E raw \in ApplyInputs, viaWatcher \in BOOLEAN :
          ApplyStart(raw, viaWatcher) /\ UNCHANGED othersOfApply
    \/ \E f1 \in BOOLEAN, f2 \in BOOLEAN : ApplyWrites(f1, f2) /\ UNCHANGED othersOfApply
    \/ ApplyCommit /\ UNCHANGED othersOfApply
    \/ ApplyFail /\ UNCHANGED othersOfApply
    \/ \E ok \in BOOLEAN : ApplyInvalidate(ok) /\ UNCHANGED othersOfApply
    \/ ApplyExit /\ UNCHANGED othersOfApply
    \/ \E rel \in RelPaths, status \in SettledStatuses :
          ThumbnailSettled(rel, status) /\ UNCHANGED othersOfApply

SpecApply == InitApply /\ [][NextApply]_vars

\* an apply has posted process_changes_complete and no write error was
\* caught and dropped on the way
AppliedCleanly == apc = "done" /\ ~swallowed

\* the album rows of a table of items
AlbumPaths(rows) == {r.path : r \in {x \in rows : x.type = "album"}}

CoversOf(covers, album) == {c \in covers : c.album_path = album}

\* every album row has the newest media row under it as its cover, or no
\* cover row when no media row lies under it
CoverInvariant(T) ==
    \A a \in AlbumPaths(T.items) :
        IF MediaUnder(T.items, a) = {}
           THEN CoversOf(T.albumCovers, a) = {}
           ELSE /\ CoversOf(T.albumCovers, a) # {}
                /\ \A c \in CoversOf(T.albumCovers, a) :
                      \E m \in Newest(T.items, a) : c.cover_path = m.path

\* C13: after every successful incremental apply, each album path present in
\* items has a cover row naming its most recently modified descendant media
\* row, or no cover row when it has no descendant media.
C13_CoverInvariantAfterApply == AppliedCleanly => CoverInvariant(Tables)

\* the change set is a single unlinkDir
OnlyUnlinkDir == Len(applyChanges) = 1 /\ applyChanges[1].type = "unlinkDir"

\* C14: after an incremental apply of unlinkDir for a directory, no items row
\* remains for the directory or a path under it, and the cover rows of the
\* directory and of every album under it are deleted.
C14_UnlinkDirRemovesRowsAndCover ==
    (AppliedCleanly /\ OnlyUnlinkDir) =>
        LET dir == relativePath(applyChanges[1].filePath)
        IN /\ \A r \in items : r.path # dir /\ ~IsUnder(r.path, dir)
           /\ \A c \in albumCovers : c.album_path # dir /\ ~IsUnder(c.album_path, dir)

\* C15: after an incremental apply the deletes have removed the thumb_status
\* rows together with the items rows, nested paths included: no thumb_status
\* row is left without an items row of the same path.
C15_NoThumbWithoutItem ==
    AppliedCleanly => \A r \in thumbStatus : \E i \in items : i.path = r.path

\* C16: when an incremental apply ends with an error, also one raised after
\* COMMIT, the three tables are as they were before the apply.
C16_FailedApplyLeavesTables == apc = "failed" => Tables = before

\* C17: an incremental apply never commits a partial set of its writes: what
\* COMMIT makes durable is the result of all the writes of the apply, the
\* thumb_status and album_covers deletions included.
C17_CommitsAllWritesOrNone ==
    apc = "invalidate" =>
        Tables \in WriteOutcomes(before, applyChanges, tree, now, FALSE, FALSE)

\* C18: applying the consolidated change set of a completed apply once more,
\* to the same tree, leaves items, thumb_status and album_covers as they are.
C18_SecondApplyChangesNothing ==
    AppliedCleanly =>
        \A out \in WriteOutcomes(Tables, applyChanges, tree, now + 1, FALSE, FALSE) :
            out = Tables

\* every add operation of the change set names a path that is in the tree
AddedPathsExist ==
    \A i \in 1..Len(addOperations(applyChanges, tree, now)) :
        addOperations(applyChanges, tree, now)[i].path \in tree

\* a second apply does change nothing as long as no added path is missing
\* from the tree (fs.stat then succeeds and Date.now() is not used)
SecondApplyOfExistingPaths ==
    (AppliedCleanly /\ AddedPathsExist) =>
        \A out \in WriteOutcomes(Tables, applyChanges, tree, now + 1, FALSE, FALSE) :
            out = Tables

\* C19: an upsert that hits a media path which already has rows leaves the
\* status of its thumb_status row as it was.
C19_UpsertKeepsThumbStatus ==
    apc = "done" =>
        \A r \in before.thumbStatus : \A n \in thumbStatus :
            n.path = r.path => n.status = r.status

\* the paths in the tree that the change set names with type update
UpdatedPaths ==
    {relativePath(c.filePath) : c \in {x \in SeqRange(KeptChanges(applyChanges)) :
                                          x.type = "update"}} \cap tree

\* C20: after an incremental apply every entry of type update has its items
\* row upserted with the freshly probed values, as an add would.
C20_UpdateIsUpserted ==
    AppliedCleanly =>
        \A rel \in UpdatedPaths :
            \E r \in items : r.path = rel /\ r.mtime = MtimeOf(rel)

(***************************************************************************)
(* withRetry (db/database-retry.js 11-165)                                 *)
(***************************************************************************)
\* errors an operation can throw: code and message of the Error object
Errors ==
    {[code |-> "ER_LOCK_DEADLOCK", message |-> "Deadlock found when trying to get lock"],
     [code |-> "undefined", message |-> "Lock wait timeout exceeded"],
     [code |-> "ECONNRESET", message |-> "read ECONNRESET"],
     [code |-> "undefined", message |-> "Waiting for table metadata lock"],
     [code |-> "ER_DUP_ENTRY", message |-> "Duplicate entry"],
     [code |-> "ER_LOCK_DEADLOCK", message |-> ""]}

\* values an operation can return
Results == {"rows"}

\* retryableCodes of isDatabaseBusyError
retryableCodes ==
    {"ER_LOCK_WAIT_TIMEOUT", "ER_LOCK_DEADLOCK", "ER_TOO_MANY_CONNECTIONS",
     "ECONNRESET", "ETIMEDOUT", "MARIADB_TIMEOUT"}

\* the messages of Errors that match
\* /lock wait timeout|deadlock found|too many connections|connection.*reset|
\*  connection.*timeout|database.*busy/i
BusyMessages ==
    {"Deadlock found when trying to get lock", "Lock wait timeout exceeded"}

\* the messages of Errors that match
\* /waiting for.*lock|index.*operation|table.*repair/i
IndexingMessages == {"Waiting for table metadata lock"}

\* isDatabaseBusyError: no message is never busy; then the code, then the message
isDatabaseBusyError(error) ==
    IF error.message \in {"", "undefined"} THEN FALSE
    ELSE IF error.code # "undefined" /\ error.code \in retryableCodes THEN TRUE
    ELSE error.message \in BusyMessages

\* isIndexingError: no message is never an indexing error; then the message
isIndexingError(error) ==
    IF error.message \in {"", "undefined"} THEN FALSE
    ELSE error.message \in IndexingMessages

\* DEFAULT_RETRY_CONFIG
BaseDelay == 50
MaxDelay == 5000
JitterRange == 40
IndexingCheckDelay == 150
IndexingJitter == 150

\* Math.random() * jitterRange and Math.random() * indexingJitter, as they
\* show in the rounded delay
Jitters == {0, JitterRange \div 2, JitterRange}
IndexingJitters == {0, IndexingJitter}

\* config.maxRetries: the default, and two overrides of options.config
RetryLimits == {0, 2, DefaultMaxRetries}

\* Math.min(a, b)
Min(a, b) == IF a <= b THEN a ELSE b

\* calculateDelay: exponential backoff, capped, plus jitter, plus the extra
\* delay of an indexing error
calculateDelay(n, forIndexing, jitter, indexingJitter) ==
    Min(BaseDelay * 2^n, MaxDelay) + jitter
        + (IF forIndexing THEN IndexingCheckDelay + indexingJitter ELSE 0)

\* the promise of withRetry resolved with a value / rejected with an error
Resolved(value) == [how |-> "resolved", value |-> value, error |-> NoError]
Rejected(error) == [how |-> "rejected", value |-> "undefined", error |-> error]

\* withRetry(operation, options): the loop starts at attempt 0
RetryCall(limit) ==
    /\ wpc = "idle"
    /\ wpc' = "calling"
    /\ maxRetries' = limit
    /\ attempt' = 0
    /\ lastError' = NoError
    /\ delay' = 0
    /\ calls' = 0
    /\ sleeps' = 0
    /\ settled' = Unsettled
    /\ UNCHANGED indexingInProgress

\* await operation() returns: return result
OperationResolves(value) ==
    /\ wpc = "calling"
    /\ calls' = calls + 1
    /\ wpc' = "returned"
    /\ settled' = Resolved(value)
    /\ UNCHANGED <<maxRetries, attempt, lastError, delay, sleeps, indexingInProgress>>

\* every error is retried
IsRetryable_always(error) == TRUE

\* the catch block goes on to retry: isBusy || isIndexing
IsRetryable(error) == isDatabaseBusyError(error) \/ isIndexingError(error)

\* the last attempt is the one after maxRetries
IsLastAttempt_oneMore(n, limit) == n > limit

\* attempt >= config.maxRetries
IsLastAttempt(n, limit) == n >= limit

\* await operation() throws: the catch block
OperationRejects(error, jitter, indexingJitter) ==
    /\ wpc = "calling"
    /\ calls' = calls + 1
    /\ lastError' = error
    /\ IF ~IsRetryable(error) \/ IsLastAttempt(attempt, maxRetries)
       THEN /\ wpc' = "thrown"
            /\ settled' = Rejected(error)
            /\ UNCHANGED <<delay, sleeps>>
       ELSE /\ wpc' = "sleeping"
            /\ delay' = calculateDelay(attempt, isIndexingError(error), jitter,
                                       indexingJitter)
            /\ sleeps' = sleeps + 1
            /\ UNCHANGED settled
    /\ UNCHANGED <<maxRetries, attempt, indexingInProgress>>

\* the timer of sleep(delay) fires: attempt++ and the next turn of the loop
SleepEnds ==
    /\ wpc = "sleeping"
    /\ attempt' = attempt + 1
    /\ wpc' = "calling"
    /\ UNCHANGED <<maxRetries, lastError, delay, calls, sleeps, settled,
                   indexingInProgress>>

\* the caller has taken the outcome; the call is over
RetryOver ==
    /\ wpc \in {"returned", "thrown"}
    /\ wpc' = "idle"
    /\ maxRetries' = DefaultMaxRetries
    /\ attempt' = 0
    /\ lastError' = NoError
    /\ delay' = 0
    /\ calls' = 0
    /\ sleeps' = 0
    /\ settled' = Unsettled
    /\ UNCHANGED indexingInProgress

\* a process_changes worker sets the key indexing_in_progress (line 358 of
\* indexing-worker.js) or deletes it (lines 476, 482), or the key expires;
\* withRetry reads neither the key nor anything derived from it
SignalFlips ==
    /\ indexingInProgress' = ~indexingInProgress
    /\ UNCHANGED retryVars

(***************************************************************************)
(* SpecRetry: calls of withRetry with an operation that returns or throws  *)
(* any of Errors at each attempt, while the indexing_in_progress key comes *)
(* and goes                                                                *)
(***************************************************************************)
InitRetry == ConIdle /\ OrchInit /\ RebuildIdle /\ ApplyIdle /\ RetryIdle /\ WatchIdle
    /\ TagIdle /\ TimerIdle /\ TaskIdle /\ LifeIdle

othersOfRetry == <<conVars, orchVars, rebuildVars, applyVars, watching, tagVars,
                   timerVars, task, tworker, lifeVars>>

NextRetry ==
    \/ \E limit \in RetryLimits : RetryCall(limit) /\ UNCHANGED othersOfRetry
    \/ \E value \in Results : OperationResolves(value) /\ UNCHANGED othersOfRetry
    \/ \E error \in Errors, jitter \in Jitters, indexingJitter \in IndexingJitters :
          OperationRejects(error, jitter, indexingJitter) /\ UNCHANGED othersOfRetry
    \/ SleepEnds /\ UNCHANGED othersOfRetry
    \/ RetryOver /\ UNCHANGED othersOfRetry
    \/ SignalFlips /\ UNCHANGED othersOfRetry

SpecRetry == InitRetry /\ [][NextRetry]_vars

\* the operation's promise settles and the timer of sleep fires
OperationSettles ==
    \/ \E value \in Results : OperationResolves(value)
    \/ \E error \in Errors, jitter \in Jitters, indexingJitter \in IndexingJitters :
          OperationRejects(error, jitter, indexingJitter)

FairRetry ==
    SpecRetry /\ WF_vars(OperationSettles /\ UNCHANGED othersOfRetry)
              /\ WF_vars(SleepEnds /\ UNCHANGED othersOfRetry)

\* an attempt has just failed with an error that neither classifier accepts
PermanentFailure ==
    /\ wpc = "calling"
    /\ calls' = calls + 1
    /\ wpc' # "returned"
    /\ ~isDatabaseBusyError(lastError')
    /\ ~isIndexingError(lastError')

\* C21: an attempt that fails with an error that is not transient is the last
\* one: withRetry sleeps for no delay and rejects with that same error, so an
\* operation whose first failure is permanent is invoked exactly once; once
\* thrown, the call does nothing more
C21_PermanentErrorThrownAtOnce ==
    [][/\ PermanentFailure =>
            /\ wpc' = "thrown"
            /\ sleeps' = sleeps
            /\ delay' = delay
            /\ settled' = Rejected(lastError')
            /\ (attempt = 0 => calls' = 1 /\ sleeps' = 0)
       /\ wpc = "thrown" => wpc' = "idle"]_retryVars

C21_Witness ==
    /\ wpc = "thrown"
    /\ lastError.code = "ER_DUP_ENTRY"
    /\ calls = 1
    /\ sleeps = 0
    /\ settled = Rejected(lastError)

\* C22: the operation is invoked at most maxRetries + 1 times; when the last
\* of them fails with a transient error withRetry rejects with that error;
\* a successful attempt resolves the call with its result and is the last
\* attempt; every call of withRetry settles
C22_BoundedAttempts ==
    /\ [](calls <= maxRetries + 1)
    /\ [](wpc = "thrown" /\ (isDatabaseBusyError(lastError) \/ isIndexingError(lastError))
            => calls = maxRetries + 1 /\ settled = Rejected(lastError))
    /\ [](wpc = "returned" => \E value \in Results : settled = Resolved(value))
    /\ [][wpc = "returned" => wpc' = "idle"]_retryVars
    /\ (wpc = "calling" ~> wpc \in {"returned", "thrown"})

C22_Witness ==
    /\ wpc = "thrown"
    /\ maxRetries = DefaultMaxRetries
    /\ calls = 9
    /\ sleeps = 8
    /\ isIndexingError(lastError)

(***************************************************************************)
(* FairSpec: the orchestrator with its own steps taken eventually: timers  *)
(* fire, awaited promises settle, workers end.  Watcher events, imports    *)
(* and manual requests come from outside and need never come.              *)
(***************************************************************************)
OrchStep ==
    \/ \E p \in FlushProcs : TimerFire(p) \/ FlushProcess(p) \/ AfterClose(p)
    \/ \E p \in ManualProcs : ManualPoll(p) \/ ManualTimeout(p)
    \/ MaintenanceStart

WorkerEnds ==
    \/ \E p \in Procs, ok \in BOOLEAN : RebuildDone(p, ok)
    \/ \E p \in FlushProcs, ok \in BOOLEAN : ApplyDone(p, ok)
    \/ \E p \in ManualProcs, ok \in BOOLEAN : ManualDone(p, ok)
    \/ MaintenanceDone

FairSpec ==
    /\ Spec
    /\ WF_vars(OrchStep /\ UNCHANGED othersOfOrch)
    /\ WF_vars(WorkerEnds /\ UNCHANGED othersOfOrch)
    /\ WF_vars(WatcherTimerFire /\ UNCHANGED othersOfOrch)

\* a rebuild started by a flush is in flight: buildSearchIndex closed the
\* watcher before it set the flag
PausedRebuild == \E p \in FlushProcs : pc[p] = "awaitRebuild"

\* C23: once a rebuild that closed the watcher is in flight, the watcher is
\* eventually open again
C23_WatcherRunsAgain == PausedRebuild ~> currentWatcher = "open"

\* a rebuild or apply worker that was in flight is gone after the step: its
\* runIndexingTask promise settled
IndexJobEnds == \E w \in IndexJobs : w \notin workers'

\* C24: the step in which an index job ends, by completion or by failure,
\* leaves isIndexing false, and isIndexing is never set while no index job
\* is in flight
C24_FlagReleasedWhenJobEnds ==
    /\ [][IndexJobEnds => ~isIndexing']_vars
    /\ [](isIndexing => IndexJobs # {})

C24_Witness == lastJob = "rejected" /\ ~isIndexing /\ workers = {} /\ booted

\* the apply worker of the flush callback p ends in failure in this step
ApplyFailsFor(p) ==
    /\ pc[p] = "awaitApply"
    /\ pc'[p] = "idle"
    /\ lastJob' = "rejected"

\* C25: when the apply of a flush fails, every change that was drained for
\* it is in the pending buffer again, where the next flush finds it
C25_FailedApplyKeepsChanges ==
    [][\A p \in FlushProcs :
          ApplyFailsFor(p) =>
              LET drained == changesToProcess[p].changes
                  pending == flattenPendingChanges(pendingIndexChanges')
              IN \A i \in 1..Len(drained) :
                    \E j \in 1..Len(pending) : pending[j] = drained[i]]_vars

(***************************************************************************)
(* onFileChange step by step (indexer.service.js 1877-1985)                *)
(*                                                                         *)
(* The handler is an async function: it tests isIndexing and the filter,   *)
(* awaits invalidateCoverCache, then the thumbnail cleanup of a removal or *)
(* computeFileHash of an add, and only then enqueues.  Other callbacks run *)
(* at each await.                                                          *)
(***************************************************************************)
\* positions at which a call of onFileChange is over
HandlerOver == {"idle", "skipped", "returned", "enqueued"}

InFlight == {h \in Handlers : watching[h].pc \notin HandlerOver}

\* the change object onFileChange enqueues
WatchedChange(h, hash) ==
    [type |-> watching[h].type, filePath |-> watching[h].filePath, hash |-> hash]

\* the handler without the isIndexing test of line 1879
WatchStart_ignoresJob(h, type, filePath) ==
    /\ currentWatcher = "open"
    /\ watching[h].pc \in HandlerOver
    /\ Len(flattenPendingChanges(pendingIndexChanges)) + Cardinality(InFlight) < MaxPending
    /\ watching' = [watching EXCEPT ![h] =
          [pc |-> IF ~shouldProcessFileChange(type, filePath)
                     THEN "skipped" ELSE "cache",
           type |-> type, filePath |-> filePath]]
    /\ UNCHANGED orchVars

\* the watcher reports an event: lines 1878-1894, up to await invalidateCoverCache
WatchStart(h, type, filePath) ==
    /\ currentWatcher = "open"
    /\ watching[h].pc \in HandlerOver
    /\ Len(flattenPendingChanges(pendingIndexChanges)) + Cardinality(InFlight) < MaxPending
    /\ watching' = [watching EXCEPT ![h] =
          [pc |-> IF isIndexing \/ ~shouldProcessFileChange(type, filePath)
                     THEN "skipped" ELSE "cache",
           type |-> type, filePath |-> filePath]]
    /\ UNCHANGED orchVars

\* enqueueIndexChange(...) and triggerDelayedIndexProcessing(): lines 1978-1984
WatchEnqueue(h, hash) ==
    /\ pendingIndexChanges' = enqueueIndexChange(pendingIndexChanges, WatchedChange(h, hash))
    /\ rebuildTimeout' = "armed"
    /\ watching' = [watching EXCEPT ![h].pc = "enqueued"]
    /\ UNCHANGED <<isIndexing, bulkPending, currentWatcher, watcherTimers, pc,
                   changesToProcess, workers, postIndexMaintenanceScheduled, booted,
                   droppedFlush>>
    /\ lastJob' = "none"

\* invalidateCoverCache has settled: an add of a video returns (1897-1900);
\* a removal awaits its thumbnail cleanup, an add its hash; addDir goes on
\* to enqueue
WatchAfterCache(h) ==
    /\ watching[h].pc = "cache"
    /\ IF watching[h].type = "add" /\ IsVideoFile(watching[h].filePath)
          THEN /\ watching' = [watching EXCEPT ![h].pc = "returned"]
               /\ UNCHANGED orchVars
       ELSE IF watching[h].type \in {"unlink", "unlinkDir"}
          THEN /\ watching' = [watching EXCEPT ![h].pc = "cleanup"]
               /\ UNCHANGED orchVars
       ELSE IF watching[h].type = "add"
          THEN /\ watching' = [watching EXCEPT ![h].pc = "hash"]
               /\ UNCHANGED orchVars
       ELSE WatchEnqueue(h, NoHash)

\* the cleanup or computeFileHash has settled: the media test of an add
\* (1968-1974), then the enqueue
WatchResume(h) ==
    /\ watching[h].pc \in {"cleanup", "hash"}
    /\ IF watching[h].type = "add" /\ ~isSupportedMediaFile(watching[h].filePath)
          THEN /\ watching' = [watching EXCEPT ![h].pc = "returned"]
               /\ UNCHANGED orchVars
          ELSE \E hash \in (IF watching[h].type = "add" THEN FileHashes ELSE {NoHash}) :
                  WatchEnqueue(h, hash)

(***************************************************************************)
(* SpecWatch: watcher events handled step by step, interleaved with the    *)
(* flush callback and its jobs                                             *)
(***************************************************************************)
InitWatch == Init

\* the events chokidar reports, the removal of a directory among them
HandledEvents == WatchEvents \cup {<<"unlinkDir", "/photos/A">>}

othersOfWatch == <<conVars, rebuildVars, applyVars, retryVars, tagVars, timerVars, taskVars, lifeVars>>

NextWatch ==
    \/ \E rebuild \in BOOLEAN : StartServer(rebuild) /\ UNCHANGED othersOfOrch
    \/ \E h \in Handlers, ev \in HandledEvents :
          WatchStart(h, ev[1], ev[2]) /\ UNCHANGED othersOfWatch
    \/ \E h \in Handlers : WatchAfterCache(h) /\ UNCHANGED othersOfWatch
    \/ \E h \in Handlers : WatchResume(h) /\ UNCHANGED othersOfWatch
    \/ \E changes \in ManualInputs : EnqueueManualChanges(changes) /\ UNCHANGED othersOfOrch
    \/ \E p \in FlushProcs : TimerFire(p) /\ UNCHANGED othersOfOrch
    \/ \E p \in FlushProcs : FlushProcess(p) /\ UNCHANGED othersOfOrch
    \/ \E p \in Procs, ok \in BOOLEAN : RebuildDone(p, ok) /\ UNCHANGED othersOfOrch
    \/ WatcherTimerFire /\ UNCHANGED othersOfOrch
    \/ \E p \in FlushProcs, ok \in BOOLEAN : ApplyDone(p, ok) /\ UNCHANGED othersOfOrch

SpecWatch == InitWatch /\ [][NextWatch]_vars

\* the call h of onFileChange enqueues in this step
Enqueues(h) == watching[h].pc # "enqueued" /\ watching'[h].pc = "enqueued"

\* C26: no event that passed the isIndexing test and the change filter
\* leaves onFileChange without being enqueued, and the step that enqueues it
\* puts it last in the bucket of its path and arms the debounce timer
C26_AcceptedEventIsEnqueued ==
    /\ [](\A h \in Handlers : watching[h].pc # "returned")
    /\ [][\A h \in Handlers :
            Enqueues(h) =>
               /\ rebuildTimeout' = "armed"
               /\ MapHas(pendingIndexChanges', watching[h].filePath)
               /\ LET bucket == MapGet(pendingIndexChanges', watching[h].filePath)
                  IN /\ bucket[Len(bucket)].type = watching[h].type
                     /\ bucket[Len(bucket)].filePath = watching[h].filePath]_vars

\* every event the buffer holds is still in it after the step, in its place
KeepsBuffered ==
    \A i \in 1..Len(pendingIndexChanges) :
        /\ i <= Len(pendingIndexChanges')
        /\ pendingIndexChanges'[i].key = pendingIndexChanges[i].key
        /\ LET old == pendingIndexChanges[i].value
               new == pendingIndexChanges'[i].value
           IN Len(old) <= Len(new) /\ SubSeq(new, 1, Len(old)) = old

\* the flush callback p drains the buffer in this step: every buffered event
\* goes into the change set of p and the buffer is left empty
Drains(p) ==
    /\ pc[p] = "invalidating"
    /\ pendingIndexChanges' = <<>>
    /\ changesToProcess'[p].changes =
          consolidateIndexChanges(flattenPendingChanges(pendingIndexChanges))

\* C27: a step either leaves every buffered event in the buffer (enqueues
\* only add to it) or is the drain of one flush, which takes the whole buffer
\* into its change set and leaves it empty; so no event is dropped and none
\* is handed to two flushes, whatever enqueues run between the steps of a
\* flush
C27_DrainIsAtomic ==
    [][KeepsBuffered \/ \E p \in FlushProcs : Drains(p)]_vars

C27_Witness ==
    /\ pc["flush1"] = "awaitApply"
    /\ changesToProcess["flush1"].changes # <<>>
    /\ pendingIndexChanges # <<>>
    /\ \E h \in Handlers : watching[h].pc = "enqueued"

(***************************************************************************)
(* Cache invalidation of the flush callback (indexer.service.js 1753-1817) *)
(*                                                                         *)
(* albumTags is a Set of strings.  Its tags for the named events are kept  *)
(* by name; the bulk of a snapshot is a number of further add events, each *)
(* for a file in a directory chain of its own, `depth` directories deep,   *)
(* which gives depth further tags per event.                               *)
(***************************************************************************)
\* PHOTOS_DIR is /photos
TagEvents ==
    { [type |-> "addDir", filePath |-> "/photos/A", hash |-> NoHash],
      [type |-> "unlinkDir", filePath |-> "/photos/A", hash |-> NoHash],
      [type |-> "add", filePath |-> "/photos/A/1.jpg", hash |-> "h1"],
      [type |-> "unlink", filePath |-> "/photos/A/B/2.jpg", hash |-> NoHash],
      [type |-> "add", filePath |-> "/photos2/9.jpg", hash |-> "h1"],
      [type |-> "add", filePath |-> "/other/9.jpg", hash |-> "h1"] }

\* most named events of a snapshot
MaxSnapshot == 2

\* sizes and depths of the bulk of a snapshot
SnapshotBulks == {0, 666, 1001, 5001, 10001}
SnapshotDepths == {1, 3}

\* most pages SCAN needs before it returns cursor 0
MaxScanPages == 2

\* rawPath.startsWith(PHOTOS_DIR): a comparison of characters
startsWithPhotosDir(rawPath) == rawPath # "/other/9.jpg"

\* rawPath.substring(PHOTOS_DIR.length).replace(/\\/g, '/').replace(/^\/+/, '')
RelOfRaw(rawPath) ==
    CASE rawPath = "/photos/A" -> "A"
      [] rawPath = "/photos/A/1.jpg" -> "A/1.jpg"
      [] rawPath = "/photos/A/B/2.jpg" -> "A/B/2.jpg"
      [] rawPath = "/photos2/9.jpg" -> "2/9.jpg"
      [] OTHER -> ""

\* rel.split('/').slice(0, -1).join('/')
DirOfRel(rel) ==
    CASE rel = "A/1.jpg" -> "A"
      [] rel = "A/B/2.jpg" -> "A/B"
      [] rel = "2/9.jpg" -> "2"
      [] OTHER -> ""

\* relDir.split('/').filter(Boolean)
Segments(relDir) ==
    CASE relDir = "A" -> <<"A">>
      [] relDir = "A/B" -> <<"A", "B">>
      [] relDir = "2" -> <<"2">>
      [] OTHER -> <<>>

\* `${current}/${seg}`
JoinSeg(current, seg) ==
    CASE current = "" /\ seg = "A" -> "/A"
      [] current = "/A" /\ seg = "B" -> "/A/B"
      [] current = "" /\ seg = "2" -> "/2"
      [] OTHER -> "/?"

\* `album:${current}`
AlbumTag(current) ==
    CASE current = "/A" -> "album:/A"
      [] current = "/A/B" -> "album:/A/B"
      [] current = "/2" -> "album:/2"
      [] current = "" -> "album:/"
      [] OTHER -> "album:/?"

\* the loop over segments (lines 1778-1781), from segment i on
RECURSIVE ChainTags(_, _, _)
ChainTags(segments, i, current) ==
    IF i > Len(segments) THEN {}
    ELSE LET next == JoinSeg(current, segments[i])
         IN {AlbumTag(next)} \cup ChainTags(segments, i + 1, next)

\* the tags one change adds to albumTags (lines 1762-1782)
TagsOfChange(change) ==
    IF ~startsWithPhotosDir(change.filePath) THEN {}
    ELSE LET rel == RelOfRaw(change.filePath)
             relDir == IF change.type \in {"addDir", "unlinkDir"} THEN rel
                       ELSE DirOfRel(rel)
         IN IF rel = "" THEN {"album:/"}
            ELSE {"album:/"} \cup ChainTags(Segments(relDir), 1, "")

\* albumTags after the loop over pendingSnapshot
albumTagsOf(snapshot) ==
    [named |-> UNION {TagsOfChange(snapshot.named[i]) : i \in 1..Len(snapshot.named)}
                 \cup (IF snapshot.bulk > 0 THEN {"album:/"} ELSE {}),
     extra |-> snapshot.bulk * snapshot.depth]

\* albumTags.size, tagsArr.length
TagCount(tags) == Cardinality(tags.named) + tags.extra

\* getPendingChangeCount() at the time of the flush
SnapshotCount(snapshot) == Len(snapshot.named) + snapshot.bulk

\* dynamicTagLimit (lines 1786-1792)
dynamicTagLimit(changes) ==
    IF changes > 10000 THEN 6000
    ELSE IF changes > 5000 THEN 4000
    ELSE IF changes > 1000 THEN 3000
    ELSE 2000

\* the debounce callback up to its first await: the tags of the snapshot,
\* then the choice between invalidateTags and the purge
TagsStart(snapshot) ==
    /\ tpc = "idle"
    /\ pendingSnapshot' = snapshot
    /\ albumTags' = albumTagsOf(snapshot)
    /\ cursor' = 0
    /\ cacheFailed' = FALSE
    /\ IF TagCount(albumTagsOf(snapshot)) = 0
          THEN cacheAction' = "none" /\ tpc' = "process"
       ELSE IF TagCount(albumTagsOf(snapshot)) > dynamicTagLimit(SnapshotCount(snapshot))
          THEN cacheAction' = "purge" /\ tpc' = "purging"
       ELSE cacheAction' = "targeted" /\ tpc' = "targeted"

\* await invalidateTags(tagsArr) settles; a rejection is caught at line 1814
InvalidateSettles(ok) ==
    /\ tpc = "targeted"
    /\ cacheFailed' = ~ok
    /\ tpc' = "process"
    /\ UNCHANGED <<pendingSnapshot, albumTags, cacheAction, cursor>>

\* one turn of the do-while loop: redis.scan(cursor, 'MATCH', 'route:browse:*')
\* answers with the next cursor, or throws (caught at line 1807)
ScanStep(next, ok) ==
    /\ tpc = "purging"
    /\ IF ~ok
          THEN cacheFailed' = TRUE /\ tpc' = "process" /\ UNCHANGED cursor
          ELSE /\ cursor' = next
               /\ tpc' = IF next = 0 THEN "process" ELSE "purging"
               /\ UNCHANGED cacheFailed
    /\ UNCHANGED <<pendingSnapshot, albumTags, cacheAction>>

\* await processPendingIndexChanges() (lines 1818-1822): the callback is over
ProcessCalled ==
    /\ tpc = "process"
    /\ tpc' = "idle"
    /\ UNCHANGED <<pendingSnapshot, albumTags, cacheAction, cursor, cacheFailed>>

(***************************************************************************)
(* SpecTags: flush callbacks over snapshots of up to MaxSnapshot named     *)
(* events and a bulk                                                       *)
(***************************************************************************)
Snapshots ==
    {[named |-> named, bulk |-> bulk, depth |-> depth] :
        named \in SeqsUpTo(TagEvents, MaxSnapshot), bulk \in SnapshotBulks,
        depth \in SnapshotDepths}

InitTags == Init

othersOfTags == <<conVars, orchVars, rebuildVars, applyVars, retryVars, watching,
                  timerVars, taskVars, lifeVars>>

NextTags ==
    \/ \E snapshot \in Snapshots : TagsStart(snapshot) /\ UNCHANGED othersOfTags
    \/ \E ok \in BOOLEAN : InvalidateSettles(ok) /\ UNCHANGED othersOfTags
    \/ \E next \in (IF cursor < MaxScanPages THEN {0, cursor + 1} ELSE {0}),
          ok \in BOOLEAN : ScanStep(next, ok) /\ UNCHANGED othersOfTags
    \/ ProcessCalled /\ UNCHANGED othersOfTags

SpecTags == InitTags /\ [][NextTags]_vars

\* the path lies under /photos
UnderPhotosRoot(filePath) ==
    filePath \in {"/photos/A", "/photos/A/1.jpg", "/photos/A/B/2.jpg"}

\* the tags of the directories above a path, below the root
AncestorTags(filePath) ==
    CASE filePath = "/photos/A/1.jpg" -> {"album:/A"}
      [] filePath = "/photos/A/B/2.jpg" -> {"album:/A", "album:/A/B"}
      [] OTHER -> {}

\* the root tag and one tag per ancestor directory of every pending path
RootAndAncestorTags(snapshot) ==
    {"album:/"} \cup
    UNION {AncestorTags(snapshot.named[i].filePath) : i \in 1..Len(snapshot.named)}

\* C28: at a flush with a pending change under the photos root the named
\* tags are the root tag and the tags of the ancestor directories of the
\* pending paths; invalidateTags is chosen when the number of tags is at
\* most the ceiling for the pending count and the purge otherwise; the purge
\* stops when the cursor is 0 again; and after a failure of either the
\* callback still goes on to processPendingIndexChanges
C28_TagsAndAction ==
    (/\ tpc # "idle"
     /\ \E i \in 1..Len(pendingSnapshot.named) :
           UnderPhotosRoot(pendingSnapshot.named[i].filePath))
    => /\ albumTags.named = RootAndAncestorTags(pendingSnapshot)
       /\ cacheAction =
            IF TagCount(albumTags) <= dynamicTagLimit(SnapshotCount(pendingSnapshot))
            THEN "targeted" ELSE "purge"
       /\ (tpc = "purging" => cacheAction = "purge")
       /\ (tpc = "process" /\ cacheAction = "purge" /\ ~cacheFailed => cursor = 0)
       /\ (cacheFailed => tpc = "process")

(***************************************************************************)
(* Claims about the checkpoint and the end of rebuild_index                *)
(***************************************************************************)
ItemPaths == {r.path : r \in items}

\* the entries walkDirStream has yielded so far in the running rebuild
Walked ==
    LET all == walkDirStream(tree)
    IN SubSeq(all, 1, Len(all) - Len(walk))

\* the i-th walked entry was not skipped by the checkpoint test
Selected(i) ==
    lastProcessedPath = NULL \/ \E j \in 1..i : Walked[j].path = lastProcessedPath

\* a step that changes the persisted checkpoint is the write after the
\* COMMIT of the batch in hand, or the delete at the end of the rebuild
CheckpointStep ==
    \/ /\ rpc = "checkpoint"
       /\ last_processed_path' = batch[Len(batch)].path
       /\ \A i \in 1..Len(batch) : batch[i].path \in ItemPaths
    \/ rpc = "finish" /\ last_processed_path' = NULL

\* C29: the persisted checkpoint always names a committed row; it changes
\* only by the write that follows the COMMIT of a batch, to the last item of
\* that batch, or by the delete at the end, so a rolled back batch never
\* moves it; and every entry the running rebuild has taken up is committed
\* or in the one batch in hand
C29_CheckpointFollowsCommit ==
    /\ [](last_processed_path # NULL => last_processed_path \in ItemPaths)
    /\ [][last_processed_path' # last_processed_path => CheckpointStep]_vars
    /\ [](RebuildRunning =>
            /\ Len(batch) <= BatchSize
            /\ \A i \in 1..Len(Walked) :
                  Selected(i) =>
                     \/ Walked[i].path \in ItemPaths
                     \/ \E k \in 1..Len(batch) : batch[k] = Walked[i])

C29_Witness ==
    /\ rpc = "failed"
    /\ last_processed_path # NULL
    /\ last_processed_path \in ItemPaths
    /\ Cardinality(items) = BatchSize
    /\ Cardinality(tree) > BatchSize

\* C30: the rebuild is reported complete only by the step of the cover
\* pass, with the checkpoint deleted and index_status complete; a rebuild
\* that failed has left index_status short of complete and, when a
\* checkpoint was written, has left a checkpoint
C30_CompleteLastFailureKeeps ==
    /\ [](rpc = "done" => last_processed_path = NULL /\ indexStatus.status = "complete")
    /\ [][rpc # "done" /\ rpc' = "done" => rpc = "covers"]_vars
    /\ [](rpc = "failed" =>
            /\ indexStatus.status # "complete"
            /\ (checkpointed => last_processed_path # NULL))

(***************************************************************************)
(* SpecBoot: the process starts, decides from the tables whether to        *)
(* rebuild (server.js, startServer step 7), runs rebuild_index, and may    *)
(* exit at any point, which ends its worker with it                        *)
(***************************************************************************)
\* the inner try of startServer (lines 159-164): a failed query leaves
\* hasResumePoint false
hasResumePoint_checkpointOnly(statusOk) == statusOk /\ last_processed_path # NULL

hasResumePoint(statusOk) ==
    statusOk /\ (indexStatus.status = "building" \/ last_processed_path # NULL)

\* line 166, and the outer catch (lines 184-189) when the count query throws
NeedsRebuild(countOk, statusOk) ==
    \/ ~countOk
    \/ Cardinality(items) = 0
    \/ hasResumePoint(statusOk)

\* startServer step 7 of a fresh process; the worker of buildSearchIndex
\* opens rebuild_index on the tables as the process found them
BootServer(countOk, statusOk) ==
    /\ StartServer(NeedsRebuild(countOk, statusOk))
    /\ IF NeedsRebuild(countOk, statusOk) THEN RebuildStart ELSE UNCHANGED rebuildVars

\* the worker of the boot rebuild has posted rebuild_complete or an error
BootRebuildDone ==
    /\ rpc \in {"done", "failed"}
    /\ RebuildDone(BootProc, rpc = "done")
    /\ UNCHANGED rebuildVars

\* the process ends: its memory is gone, a running worker dies with it, the
\* databases stay as committed
ProcessExit ==
    /\ booted
    /\ IF RebuildRunning THEN RebuildKill ELSE UNCHANGED rebuildVars
    /\ isIndexing' = FALSE
    /\ pendingIndexChanges' = <<>>
    /\ bulkPending' = 0
    /\ rebuildTimeout' = "idle"
    /\ currentWatcher' = "null"
    /\ watcherTimers' = 0
    /\ pc' = [p \in Procs |-> "idle"]
    /\ changesToProcess' = [p \in Procs |-> NoChanges]
    /\ workers' = {}
    /\ postIndexMaintenanceScheduled' = FALSE
    /\ booted' = FALSE
    /\ lastJob' = "none"
    /\ droppedFlush' = "none"

InitBoot == InitRebuild

othersOfBoot == <<conVars, applyVars, retryVars, watching, tagVars, timerVars, taskVars, lifeVars>>

NextBoot ==
    \/ \E countOk, statusOk \in BOOLEAN : BootServer(countOk, statusOk) /\ UNCHANGED othersOfBoot
    \/ WalkNext /\ UNCHANGED <<othersOfBoot, orchVars>>
    \/ BatchCommit /\ UNCHANGED <<othersOfBoot, orchVars>>
    \/ CheckpointWrite /\ UNCHANGED <<othersOfBoot, orchVars>>
    \/ ProgressWrite /\ UNCHANGED <<othersOfBoot, orchVars>>
    \/ WalkEnd /\ UNCHANGED <<othersOfBoot, orchVars>>
    \/ LastCommit /\ UNCHANGED <<othersOfBoot, orchVars>>
    \/ LastProgress /\ UNCHANGED <<othersOfBoot, orchVars>>
    \/ DeleteCheckpoint /\ UNCHANGED <<othersOfBoot, orchVars>>
    \/ MarkComplete /\ UNCHANGED <<othersOfBoot, orchVars>>
    \/ \E ok \in BOOLEAN : CoversAndComplete(ok) /\ UNCHANGED <<othersOfBoot, orchVars>>
    \/ RebuildFail /\ UNCHANGED <<othersOfBoot, orchVars>>
    \/ BootRebuildDone /\ UNCHANGED othersOfBoot
    \/ WatcherTimerFire /\ UNCHANGED <<othersOfBoot, rebuildVars>>
    \/ ProcessExit /\ UNCHANGED othersOfBoot

SpecBoot == InitBoot /\ [][NextBoot]_vars

\* the start found an unfinished rebuild
UnfinishedRebuild == indexStatus.status = "building" \/ last_processed_path # NULL

\* the start handed a rebuild_index job to a worker
BootRebuilds == \E w \in workers' : w.owner = BootProc /\ w.type = "rebuild_index"

\* the statement as claimed: a start whose queries succeed rebuilds exactly
\* when items is empty or a rebuild is unfinished, and in the unfinished case
\* leaves items as they are
C31_UnfinishedAlwaysResumes ==
    [][BootServer(TRUE, TRUE) =>
          /\ BootRebuilds <=> (items = {} \/ UnfinishedRebuild)
          /\ UnfinishedRebuild => items' = items]_vars

\* C31: a start whose queries succeed rebuilds exactly when items is empty or
\* a rebuild is unfinished (index_status building or a checkpoint); with a
\* checkpoint the rebuild resumes from it and keeps items, without one (also
\* when index_status is building) it clears items and starts over
C31_RebuildIffEmptyOrUnfinished ==
    [][BootServer(TRUE, TRUE) =>
          /\ BootRebuilds <=> (items = {} \/ UnfinishedRebuild)
          /\ last_processed_path # NULL =>
                /\ items' = items
                /\ lastProcessedPath' = last_processed_path
                /\ indexStatus' = indexStatus
          /\ (BootRebuilds /\ last_processed_path = NULL) =>
                /\ items' = {}
                /\ lastProcessedPath' = NULL]_vars

\* a restarted process resumes from the checkpoint over the rows it found
C31_Witness ==
    /\ booted
    /\ HasWorker(BootProc)
    /\ rpc = "walk"
    /\ walk = walkDirStream(tree)
    /\ lastProcessedPath # NULL
    /\ lastProcessedPath = last_processed_path
    /\ items # {}
    /\ stops > 0

(***************************************************************************)
(* SpecDebounce: the debounce timer of triggerDelayedIndexProcessing       *)
(* (indexer.service.js 1741-1825) under watcher events, manual enqueues    *)
(* and firing timers, for every configured base delay of StabilizeDelays.  *)
(* A timer is [id, delay, custom, changes]: its handle, the delay it was   *)
(* armed with, whether the caller gave the delay, and the pending count    *)
(* read when it was armed.  rebuildTimeout holds the handle armed last,    *)
(* which is timerSeq.                                                      *)
(***************************************************************************)
MaxTriggers == 4

\* values of INDEX_STABILIZE_DELAY_MS (config.js is read from the environment)
StabilizeDelays == {0, 500, 5000, 10000, 15000, 20000, 30000, 45000}

\* numbers of events a burst of the watcher adds to the buffer
Bursts == {1, 999, 1000, 4000, 5000}

\* the argument of triggerDelayedIndexProcessing: absent, or a number
NoDelayGiven == [given |-> FALSE, ms |-> 0]

CustomDelays == {NoDelayGiven} \cup {[given |-> TRUE, ms |-> d] : d \in {-1, 0, 800}}

Max(a, b) == IF a >= b THEN a ELSE b

\* line 1744: Number.isFinite(customDelayMs) && customDelayMs >= 0
hasCustomDelay(customDelayMs) == customDelayMs.given /\ customDelayMs.ms >= 0

\* the tiers without Math.max
dynamicDelay_noMax(customDelayMs, changes) ==
    IF hasCustomDelay(customDelayMs) THEN customDelayMs.ms
    ELSE IF changes > 10000 THEN 30000
    ELSE IF changes > 5000 THEN 20000
    ELSE IF changes > 1000 THEN 10000
    ELSE INDEX_STABILIZE_DELAY_MS

\* lines 1745-1751
dynamicDelay(customDelayMs, changes) ==
    IF hasCustomDelay(customDelayMs) THEN customDelayMs.ms
    ELSE IF changes > 10000 THEN Max(INDEX_STABILIZE_DELAY_MS, 30000)
    ELSE IF changes > 5000 THEN Max(INDEX_STABILIZE_DELAY_MS, 20000)
    ELSE IF changes > 1000 THEN Max(INDEX_STABILIZE_DELAY_MS, 10000)
    ELSE INDEX_STABILIZE_DELAY_MS

\* clearTimeout that leaves the timer armed
clearTimeout_kept(live, handle) == live

\* clearTimeout(handle): the timer, when still live, is gone
clearTimeout(live, handle) == {t \in live : t.id # handle}

\* triggerDelayedIndexProcessing(customDelayMs) with changes events pending:
\* lines 1742 and 1753
triggerDelayedIndexProcessing(customDelayMs, changes) ==
    /\ timerSeq < MaxTriggers
    /\ timerSeq' = timerSeq + 1
    /\ rebuildTimeout' = "armed"
    /\ timers' = clearTimeout(timers, timerSeq) \cup
                    {[id |-> timerSeq + 1,
                      delay |-> dynamicDelay(customDelayMs, changes),
                      custom |-> hasCustomDelay(customDelayMs),
                      changes |-> changes]}

\* line 885
MANUAL_ENQUEUE_DEFAULT_DELAY_MS == Min(INDEX_STABILIZE_DELAY_MS, 500)

\* a burst of n add events of new image files while no job is in flight:
\* every one is enqueued and calls triggerDelayedIndexProcessing(), each call
\* clearing the timer of the one before; the step ends with the last call
WatcherBurst(n) ==
    /\ bulkPending' = bulkPending + n
    /\ triggerDelayedIndexProcessing(NoDelayGiven,
            getPendingChangeCount(pendingIndexChanges, bulkPending + n))
    /\ UNCHANGED pendingIndexChanges

\* enqueueManualChanges of one change with options.delayMs (lines 1715-1729)
ManualEnqueue(delayMs) ==
    /\ bulkPending' = bulkPending + 1
    /\ LET given == IF delayMs.given /\ delayMs.ms >= 0
                       THEN delayMs.ms ELSE MANUAL_ENQUEUE_DEFAULT_DELAY_MS
       IN triggerDelayedIndexProcessing([given |-> TRUE, ms |-> given],
              getPendingChangeCount(pendingIndexChanges, bulkPending + 1))
    /\ UNCHANGED pendingIndexChanges

\* the timer t fires: its callback hands the buffer to
\* processPendingIndexChanges, which drains it (no job is in flight here)
TimerFires(t) ==
    /\ t \in timers
    /\ timers' = timers \ {t}
    /\ pendingIndexChanges' = <<>>
    /\ bulkPending' = 0
    /\ rebuildTimeout' = "idle"
    /\ UNCHANGED timerSeq

InitDebounce ==
    /\ ConIdle /\ OrchInit /\ RebuildIdle /\ ApplyIdle /\ RetryIdle /\ WatchIdle
    /\ TagIdle /\ TaskIdle /\ LifeIdle
    /\ INDEX_STABILIZE_DELAY_MS \in StabilizeDelays
    /\ timers = {}
    /\ timerSeq = 0

othersOfDebounce ==
    <<conVars, isIndexing, currentWatcher, watcherTimers, pc,
      changesToProcess, workers, postIndexMaintenanceScheduled, booted, lastJob,
      droppedFlush, rebuildVars, applyVars, retryVars, watching, tagVars,
      INDEX_STABILIZE_DELAY_MS, taskVars, lifeVars>>

NextDebounce ==
    \/ \E n \in Bursts : WatcherBurst(n) /\ UNCHANGED othersOfDebounce
    \/ \E d \in CustomDelays : ManualEnqueue(d) /\ UNCHANGED othersOfDebounce
    \/ \E t \in timers : TimerFires(t) /\ UNCHANGED othersOfDebounce

SpecDebounce == InitDebounce /\ [][NextDebounce]_vars

\* pending counts on both sides of every threshold
PendingSamples == {0, 1, 1000, 1001, 5000, 5001, 10000, 10001, 20000}

Fires(t) == t \in timers /\ t \notin timers' /\ timerSeq' = timerSeq

\* C39: at most one debounce timer is live at any time, a trigger leaves
\* only the timer it arms, and a timer that fires is the one armed by the
\* last trigger: no trigger came after it was armed
C39_OneTimerLastTriggerFires ==
    /\ [](Cardinality(timers) <= 1)
    /\ [][timerSeq' # timerSeq =>
             /\ Cardinality(timers') = 1
             /\ \A t \in timers' : t.id = timerSeq']_vars
    /\ [][\A t \in timers : Fires(t) => t.id = timerSeq]_vars

\* a second trigger has replaced the timer of the first, events are pending
C39_Witness ==
    /\ timerSeq >= 2
    /\ Cardinality(timers) = 1
    /\ \A t \in timers : t.id = timerSeq
    /\ bulkPending > 1

\* the delay of the sleep that starts in this step holds the extra delay of
\* calculateDelay: the backoff and its jitter alone stay below it
ExtraDelayAdded ==
    delay' >= Min(BaseDelay * 2^attempt, MaxDelay) + IndexingCheckDelay

\* C33: a retry waits the extra indexing delay exactly when the
\* indexing_in_progress signal is set at that moment
C33_ExtraDelayFollowsSignal ==
    [][(wpc = "calling" /\ wpc' = "sleeping") =>
          (ExtraDelayAdded <=> indexingInProgress)]_vars

\* what the code does: the extra delay follows the text of the error
ExtraDelayFollowsErrorText ==
    [][(wpc = "calling" /\ wpc' = "sleeping") =>
          (ExtraDelayAdded <=> lastError'.message \in IndexingMessages)]_vars

\* the watcher hands an event to the handler h in this step
ArrivesAt(h) == watching[h].pc \in HandlerOver /\ watching'[h].pc \notin {"idle", "enqueued"}
                    /\ watching'[h] # watching[h]

\* C34: an event that arrives while isIndexing is true takes the skip branch
\* (accumulateWatchLog('skip', ...) and return): the step leaves the pending
\* buffer and the debounce timer alone, and the handler never enqueues it
C34_EventDuringJobDropped ==
    /\ [][\A h \in Handlers :
             (ArrivesAt(h) /\ isIndexing) =>
                /\ watching'[h].pc = "skipped"
                /\ pendingIndexChanges' = pendingIndexChanges
                /\ bulkPending' = bulkPending
                /\ rebuildTimeout' = rebuildTimeout]_vars
    /\ [][\A h \in Handlers : watching[h].pc = "skipped" => ~Enqueues(h)]_vars

\* an event the filter accepts was skipped while the apply job was running
C34_Witness ==
    /\ isIndexing
    /\ currentWatcher = "open"
    /\ \E h \in Handlers :
          /\ watching[h].pc = "skipped"
          /\ shouldProcessFileChange(watching[h].type, watching[h].filePath)

\* the incremental apply that p (a flush callback or a manual sync) awaited
\* ends with success in this step
ApplySucceedsFor(p) ==
    /\ pc[p] = "awaitApply"
    /\ pc'[p] = "idle"
    /\ lastJob' = "resolved"

MaintenanceWorkers == {w \in workers : w.type = "post_index_backfill"}

\* at most one maintenance run is scheduled or running at a time, and the end
\* of a maintenance worker, however it ends, rejects no index job and leaves
\* isIndexing alone
MaintenanceSingleAndHarmless ==
    /\ [](Cardinality(MaintenanceWorkers) <= 1)
    /\ [](MaintenanceWorkers # {} => postIndexMaintenanceScheduled)
    /\ [][MaintenanceWorkers' # MaintenanceWorkers =>
             /\ isIndexing' = isIndexing
             /\ lastJob' = "none"
             /\ pc' = pc]_vars

\* C35: the step in which an incremental apply ends with success, for the
\* debounced flush and for a manual sync alike, leaves post-index maintenance
\* scheduled; at most one maintenance run is scheduled at a time and its
\* failure fails no apply
C35_MaintenanceAfterEveryApply ==
    /\ [][\A p \in FlushProcs \cup ManualProcs :
             ApplySucceedsFor(p) => postIndexMaintenanceScheduled']_vars
    /\ MaintenanceSingleAndHarmless

\* the same for the manual sync alone
MaintenanceAfterManualApply ==
    [][\A p \in ManualProcs :
          ApplySucceedsFor(p) => postIndexMaintenanceScheduled']_vars

(***************************************************************************)
(* SpecTask: one call of runIndexingTask (indexer.service.js 1477-1573)    *)
(* and the disposable worker thread it creates (indexing-worker.js,        *)
(* parentPort.on('message') 574-595, process_changes 349-485).             *)
(*                                                                         *)
(* task is the parent's side: the task type, the number of changes of the  *)
(* payload, whether worker.postMessage went through, the promise           *)
(* (settled), the number of resolve/reject calls made (settles), the       *)
(* number of workers created, whether the listeners are attached and       *)
(* whether worker.terminate() was called.  tworker is the thread: its      *)
(* position, the messages it posted that the parent has not handled, the   *)
(* timeout increases in force (boosts), whether it posted a terminal       *)
(* message, and whether it died of itself.  The two run concurrently; a    *)
(* terminated thread takes no further step.                                *)
(***************************************************************************)
TaskTypes == {"rebuild_index", "process_changes", "post_index_backfill"}

\* the keys of the worker's tasks object that runIndexingTask is called with
HandledTypes == {"rebuild_index", "process_changes"}

\* doneTypes of runIndexingTask (lines 1524-1530)
doneTypes ==
    {"rebuild_complete", "process_changes_complete", "backfill_dimensions_complete",
     "backfill_mtime_complete", "post_index_backfill_complete"}

\* the message a handler posts when it ends well
CompleteMessage(type) ==
    IF type = "rebuild_index" THEN "rebuild_complete" ELSE "process_changes_complete"

\* cleanup that terminates the worker and leaves its listeners attached
cleanup_keepsListeners(t) == [t EXCEPT !.terminated = TRUE]

\* cleanup(): removeAllListeners and terminate (lines 1481-1492)
cleanup(t) == [t EXCEPT !.listeners = FALSE, !.terminated = TRUE]

\* if (!settled) { settled = true; cleanup(); resolve(...) or reject(...) }
Settle(t, how) ==
    IF t.settled = "pending"
       THEN cleanup([t EXCEPT !.settled = how, !.settles = @ + 1])
       ELSE t

\* the caller sets isIndexing and calls runIndexingTask(type, payload): one
\* worker is created, the listeners are attached, the task is posted; when
\* postMessage throws the promise is rejected at once (lines 1565-1571)
TaskCall(type, changes, postOk) ==
    /\ task.type = "none"
    /\ ~isIndexing
    /\ isIndexing' = (type \in HandledTypes)
    /\ task' = IF postOk
                  THEN [NoTask EXCEPT !.type = type, !.changes = changes, !.created = 1,
                                      !.posted = TRUE, !.listeners = TRUE]
                  ELSE Settle([NoTask EXCEPT !.type = type, !.changes = changes,
                                             !.created = 1, !.listeners = TRUE],
                              "rejected")
    /\ tworker' = [NoTaskWorker EXCEPT !.pos = IF postOk THEN "received" ELSE "none"]
    /\ UNCHANGED indexingInProgress

\* parentPort.on('message') of the worker up to the first await of the
\* handler: an unknown type is logged; process_changes returns at once on
\* no changes, else raises the timeouts and sets indexing_in_progress
\* (both inside try/catch: either may fail)
WorkerBegin(boostOk, setOk) ==
    /\ tworker.pos = "received"
    /\ ~task.terminated
    /\ IF task.type \notin HandledTypes
          THEN /\ tworker' = [tworker EXCEPT !.pos = "returned",
                                             !.outbox = Append(@, "log")]
               /\ UNCHANGED indexingInProgress
       ELSE IF task.type = "process_changes" /\ task.changes = 0
          THEN /\ tworker' = [tworker EXCEPT !.pos = "returned"]
               /\ UNCHANGED indexingInProgress
       ELSE IF task.type = "process_changes"
          THEN /\ tworker' = [tworker EXCEPT !.pos = "tx",
                                             !.boosts = IF boostOk THEN @ + 1 ELSE @]
               /\ indexingInProgress' = (indexingInProgress \/ setOk)
       ELSE /\ tworker' = [tworker EXCEPT !.pos = "tx"]
            /\ UNCHANGED indexingInProgress
    /\ UNCHANGED <<task, isIndexing>>

\* the handler reaches its end: COMMIT and the completion message, or the
\* catch block with ROLLBACK and the error message (lines 470-475, 297,
\* 478-481, 301); rebuild_index returns after it
WorkerPosts(ok) ==
    /\ tworker.pos = "tx"
    /\ ~task.terminated
    /\ tworker' = [tworker EXCEPT
                      !.pos = IF task.type = "process_changes" THEN "posted" ELSE "returned",
                      !.outbox = Append(@, IF ok THEN CompleteMessage(task.type) ELSE "error"),
                      !.terminal = TRUE]
    /\ UNCHANGED <<task, isIndexing, indexingInProgress>>

\* await redis.del('indexing_in_progress') inside try/catch (lines 476, 482)
WorkerClearsSignal(ok) ==
    /\ tworker.pos = "posted"
    /\ ~task.terminated
    /\ tworker' = [tworker EXCEPT !.pos = "cleared"]
    /\ indexingInProgress' = (indexingInProgress /\ ~ok)
    /\ UNCHANGED <<task, isIndexing>>

\* adaptDbTimeouts with the negative deltas (lines 477, 483)
WorkerLowersTimeouts ==
    /\ tworker.pos = "cleared"
    /\ ~task.terminated
    /\ tworker' = [tworker EXCEPT !.pos = "returned",
                                  !.boosts = IF @ > 0 THEN @ - 1 ELSE @]
    /\ UNCHANGED <<task, isIndexing, indexingInProgress>>

\* worker.on('message'): the oldest message the parent has not handled;
\* a log message is logged, an error rejects, a done type resolves; the
\* timeouts a terminated thread had raised for its own connections go with it
ParentMessage ==
    /\ task.listeners
    /\ tworker.outbox # <<>>
    /\ LET m == Head(tworker.outbox)
       IN task' = IF m = "error" THEN Settle(task, "rejected")
                  ELSE IF m \in doneTypes THEN Settle(task, "resolved")
                  ELSE task
    /\ tworker' = [tworker EXCEPT !.outbox = Tail(@),
                                  !.boosts = IF task'.terminated THEN 0 ELSE @]
    /\ UNCHANGED <<isIndexing, indexingInProgress>>

\* the thread dies of itself: an uncaught error (worker.on('error')), or an
\* exit with code 0 or another code (worker.on('exit'))
WorkerDies(how) ==
    /\ tworker.pos \notin {"none"}
    /\ tworker.gone = "no"
    /\ ~task.terminated
    /\ tworker' = [tworker EXCEPT !.gone = how, !.boosts = 0]
    /\ task' = IF ~task.listeners THEN task
               ELSE Settle(task, IF how = "exit0" THEN "resolved" ELSE "rejected")
    /\ UNCHANGED <<isIndexing, indexingInProgress>>

\* the finally of the caller (lines 1637-1639, 1669-1671, 1598): the awaited
\* promise has settled, isIndexing is released
CallerReleases ==
    /\ task.settled # "pending"
    /\ isIndexing
    /\ isIndexing' = FALSE
    /\ UNCHANGED <<task, tworker, indexingInProgress>>

\* the key set with EX 60 expires
SignalExpires ==
    /\ indexingInProgress
    /\ task.terminated
    /\ indexingInProgress' = FALSE
    /\ UNCHANGED <<task, tworker, isIndexing>>

\* the call is over: the next one gets a worker of its own
TaskOver ==
    /\ task.settled # "pending"
    /\ ~isIndexing
    /\ task' = NoTask
    /\ tworker' = NoTaskWorker
    /\ UNCHANGED <<isIndexing, indexingInProgress>>

InitTask == Init

othersOfTask ==
    <<conVars, pendingIndexChanges, bulkPending, rebuildTimeout, currentWatcher,
      watcherTimers, pc, changesToProcess, workers, postIndexMaintenanceScheduled,
      booted, lastJob, droppedFlush, rebuildVars, applyVars, retryVars, watching,
      tagVars, timerVars, lifeVars>>

NextTask ==
    \/ \E type \in TaskTypes, changes \in {0, 1}, postOk \in BOOLEAN :
          TaskCall(type, changes, postOk) /\ UNCHANGED othersOfTask
    \/ \E boostOk, setOk \in BOOLEAN : WorkerBegin(boostOk, setOk) /\ UNCHANGED othersOfTask
    \/ \E ok \in BOOLEAN : WorkerPosts(ok) /\ UNCHANGED othersOfTask
    \/ \E ok \in BOOLEAN : WorkerClearsSignal(ok) /\ UNCHANGED othersOfTask
    \/ WorkerLowersTimeouts /\ UNCHANGED othersOfTask
    \/ ParentMessage /\ UNCHANGED othersOfTask
    \/ \E how \in {"error", "exit0", "exit1"} : WorkerDies(how) /\ UNCHANGED othersOfTask
    \/ CallerReleases /\ UNCHANGED othersOfTask
    \/ SignalExpires /\ UNCHANGED othersOfTask
    \/ TaskOver /\ UNCHANGED othersOfTask

SpecTask == InitTask /\ [][NextTask]_vars

\* C36: a call of runIndexingTask has created exactly one worker; resolve or
\* reject is called at most once and a settled promise stays as it settled;
\* whenever the promise has settled, by a completion message, an error
\* message, the worker's error or exit event, or a failed postMessage, the
\* listeners are removed and the worker is terminated; and while the worker
\* has posted no terminal message and has not died, a posted task leaves the
\* promise pending
C36_OneWorkerSettlesOnce ==
    /\ [](task.type # "none" => task.created = 1)
    /\ [](task.settles <= 1)
    /\ [][(task.settled # "pending" /\ task'.type # "none") =>
             task'.settled = task.settled]_vars
    /\ [](task.settled # "pending" => (~task.listeners /\ task.terminated))
    /\ []((task.posted /\ ~tworker.terminal /\ tworker.gone = "no") =>
             task.settled = "pending")

\* the completion message of an apply has resolved the promise
C36_Witness ==
    /\ task.type = "process_changes"
    /\ task.settled = "resolved"
    /\ task.settles = 1
    /\ task.created = 1
    /\ ~task.listeners
    /\ task.terminated
    /\ tworker.terminal
    /\ tworker.gone = "no"

\* process_changes with no changes has returned without a message: the
\* promise is pending and isIndexing stays set
TaskNeverSettles ==
    /\ task.type = "process_changes"
    /\ tworker.pos = "returned"
    /\ ~tworker.terminal
    /\ tworker.outbox = <<>>
    /\ task.settled = "pending"
    /\ isIndexing

\* C40: when the caller of an incremental apply releases isIndexing after
\* the worker has reported the end of the apply, by its completion message
\* or by its error message, the key indexing_in_progress that the worker
\* set is not set any more and no timeout increase of the worker is in force
C40_SignalClearedAtRelease ==
    [][(isIndexing /\ ~isIndexing' /\ task.type = "process_changes"
            /\ tworker.terminal /\ tworker.gone = "no") =>
          /\ ~indexingInProgress
          /\ tworker.boosts = 0]_vars

(***************************************************************************)
(* a path whose last raw event is a removal (consolidateIndexChanges       *)
(* 1439-1463, process_changes 391-412)                                     *)
(***************************************************************************)
\* the raw events of a change list that name one file path
RawEventsOf(raw, filePath) == SelectSeq(raw, LAMBDA c : c.filePath = filePath)

\* the last raw event of the path is unlink or unlinkDir
LastIsRemoval(raw, filePath) ==
    /\ RawEventsOf(raw, filePath) # <<>>
    /\ RawEventsOf(raw, filePath)[Len(RawEventsOf(raw, filePath))].type \in {"unlink", "unlinkDir"}

\* the raw change lists of one accumulation window that consolidate to the
\* change set the worker was handed
RawListsApplied == {raw \in ApplyInputs : consolidateIndexChanges(raw) = applyChanges}

\* C37: if the last raw event of a path within one accumulation window is
\* unlink or unlinkDir and consolidation keeps an entry for that path, then
\* after a successful incremental apply no items row exists for that path.
C37_RemovedLastLeavesNoItem ==
    AppliedCleanly =>
        \A raw \in RawListsApplied : \A c \in SeqRange(KeptChanges(applyChanges)) :
            LastIsRemoval(raw, c.filePath) =>
                \A r \in items : r.path # relativePath(c.filePath)

\* what does hold: an entry that is still of type unlink or unlinkDir after
\* consolidation (a single removal of its path) leaves no items row
RemovalEntryLeavesNoItem ==
    AppliedCleanly =>
        \A c \in SeqRange(KeptChanges(applyChanges)) :
            IsDeleteChange(c) => \A r \in items : r.path # relativePath(c.filePath)

(***************************************************************************)
(* The file watcher: instances and the running flag (indexer.service.js    *)
(* 1579-1607, 1832-1863, 1986-2009, 2027-2040; DISABLE_WATCH is off)       *)
(***************************************************************************)
\* most chokidar instances one run creates
MaxWatchers == 3

\* most restart timers armed at one time
MaxArmedRestarts == 2

\* lines 1849-2009 of watchPhotosDir, reached with isIndexing clear: a new
\* chokidar instance, the running flag set, the idle interval of the
\* instance started (the assignment to currentWatcher is the caller's)
chokidarWatch ==
    /\ watcherSeq < MaxWatchers
    /\ watcherSeq' = watcherSeq + 1
    /\ openWatchers' = openWatchers \cup {watcherSeq + 1}
    /\ idleTimers' = idleTimers \cup {watcherSeq + 1}
    /\ watcherRunning' = TRUE
    /\ UNCHANGED idleClosing

\* startServer step 7: buildSearchIndex() up to its await when a rebuild is
\* due, then watchPhotosDir(), which opens an instance or, with isIndexing
\* set, arms its 30 s retry
LifeStartServer(rebuild) ==
    /\ StartServer(rebuild)
    /\ IF rebuild THEN UNCHANGED lifeVars ELSE chokidarWatch

\* buildSearchIndex() called by p after startup, lines 1580-1595: with the
\* flag set it returns; with currentWatcher set it calls close() on the
\* instance created last and awaits it; otherwise it sets the flag and
\* starts the worker.  The running flag is not touched.
LifeRebuild(p) ==
    /\ booted
    /\ pc[p] = "idle"
    /\ ~isIndexing
    /\ IF currentWatcher = "open"
          THEN /\ openWatchers' = openWatchers \ {watcherSeq}
               /\ pc' = [pc EXCEPT ![p] = "closing"]
               /\ UNCHANGED <<isIndexing, workers>>
          ELSE /\ isIndexing' = TRUE
               /\ workers' = workers \cup {Worker(p, "rebuild_index", NoChanges)}
               /\ pc' = [pc EXCEPT ![p] = "awaitRebuild"]
               /\ UNCHANGED openWatchers
    /\ lastJob' = "none"
    /\ UNCHANGED <<pendingIndexChanges, bulkPending, rebuildTimeout, currentWatcher,
                   watcherTimers, changesToProcess, postIndexMaintenanceScheduled,
                   booted, droppedFlush>>
    /\ UNCHANGED <<watcherRunning, idleClosing, idleTimers, watcherSeq>>

\* the finally block of buildSearchIndex, lines 1598-1606: the flag is
\* released and the 5 s restart timer armed
LifeRebuildDone(p) ==
    /\ pc[p] = "awaitRebuild"
    /\ HasWorker(p)
    /\ watcherTimers < MaxArmedRestarts
    /\ workers' = workers \ {WorkerOf(p)}
    /\ isIndexing' = FALSE
    /\ watcherTimers' = watcherTimers + 1
    /\ pc' = [pc EXCEPT ![p] = "idle"]
    /\ lastJob' = "resolved"
    /\ UNCHANGED <<pendingIndexChanges, bulkPending, rebuildTimeout, currentWatcher,
                   changesToProcess, postIndexMaintenanceScheduled, booted,
                   droppedFlush>>
    /\ UNCHANGED lifeVars

\* a restart timer fires (lines 1602-1604, 1842-1844): watchPhotosDir()
\* unless the flag is set
LifeTimerFire ==
    /\ WatcherTimerFire
    /\ IF isIndexing THEN UNCHANGED lifeVars ELSE chokidarWatch

\* a tick of the idle interval of instance w, lines 1989-1994: nothing
\* pending, no job in flight and no event for WATCHER_IDLE_STOP_MS; close()
\* is called on w
IdleTick(w) ==
    /\ w \in idleTimers
    /\ w \notin idleClosing
    /\ PendingEmpty
    /\ ~isIndexing
    /\ openWatchers' = openWatchers \ {w}
    /\ idleClosing' = idleClosing \cup {w}
    /\ UNCHANGED <<watcherRunning, idleTimers, watcherSeq>>
    /\ UNCHANGED orchVars

\* close() of the idle stop of w has settled, lines 1995-2001: either way the
\* flag is cleared and the interval of w stopped
IdleClosed(w) ==
    /\ w \in idleClosing
    /\ watcherRunning' = FALSE
    /\ idleClosing' = idleClosing \ {w}
    /\ idleTimers' = idleTimers \ {w}
    /\ UNCHANGED <<openWatchers, watcherSeq>>
    /\ UNCHANGED orchVars

\* ensureWatcherRunning(), lines 2027-2040
ensureWatcherRunning ==
    /\ booted
    /\ ~watcherRunning /\ ~isIndexing
    /\ chokidarWatch
    /\ currentWatcher' = "open"
    /\ lastJob' = "none"
    /\ UNCHANGED <<isIndexing, pendingIndexChanges, bulkPending, rebuildTimeout,
                   watcherTimers, pc, changesToProcess, workers,
                   postIndexMaintenanceScheduled, booted, droppedFlush>>

(***************************************************************************)
(* SpecLife: startup, rebuilds, restart timers, idle stops and             *)
(* ensureWatcherRunning calls, up to MaxWatchers instances                 *)
(***************************************************************************)
othersOfLife == <<conVars, rebuildVars, applyVars, retryVars, watching, tagVars,
                  timerVars, taskVars>>

NextLife ==
    \/ \E rebuild \in BOOLEAN : LifeStartServer(rebuild) /\ UNCHANGED othersOfLife
    \/ \E p \in FlushProcs : LifeRebuild(p) /\ UNCHANGED othersOfLife
    \/ \E p \in FlushProcs : AfterClose(p) /\ UNCHANGED <<othersOfLife, lifeVars>>
    \/ \E p \in Procs : LifeRebuildDone(p) /\ UNCHANGED othersOfLife
    \/ LifeTimerFire /\ UNCHANGED othersOfLife
    \/ \E w \in 1..MaxWatchers : IdleTick(w) /\ UNCHANGED othersOfLife
    \/ \E w \in 1..MaxWatchers : IdleClosed(w) /\ UNCHANGED othersOfLife
    \/ ensureWatcherRunning /\ UNCHANGED othersOfLife

SpecLife == Init /\ [][NextLife]_vars

\* no close() is awaited, no job is in flight and no restart timer is armed
WatcherSettled ==
    /\ idleClosing = {}
    /\ \A p \in Procs : pc[p] # "closing"
    /\ ~isIndexing
    /\ watcherTimers = 0

\* at most one instance is watching
AtMostOneWatcher == Cardinality(openWatchers) <= 1

\* the running flag is set exactly when an instance is watching
FlagMatchesWatcher == watcherRunning <=> openWatchers # {}

\* C38: after any sequence of startup, full rebuilds, idle stops, delayed
\* restart timers and ensureWatcherRunning calls, at most one file watcher
\* instance is active, and the running flag of state.watcher is true exactly
\* when that instance is active (read here of the states in which nothing is
\* under way).
C38_OneWatcherFlagExact ==
    WatcherSettled => (AtMostOneWatcher /\ FlagMatchesWatcher)

\* the second half alone
FlagExactWhenSettled == WatcherSettled => FlagMatchesWatcher
====
